---- MODULE Spec2Model ----
(***************************************************************************)
(* A model of the portfolio content pipeline of devon_bray_portfolio:      *)
(* content_api/load_portfolio.py (discovery and aggregation),              *)
(* content_api/images.py (media transform), content_api/schema.py          *)
(* (validation) and web_view/app.py (the slug lookup).                     *)
(*                                                                         *)
(* Conventions.                                                            *)
(*  - A file or directory name is the sequence of its dot-separated        *)
(*    components: "a.b.yaml" is <<"a", "b", "yaml">>, ".yaml" is           *)
(*    <<"", "yaml">>, "entry" is <<"entry">>.                              *)
(*  - An Optional value is a sequence of length 0 (None) or 1.             *)
(*  - A directory listing is a sequence, in the order iterdir() yields it. *)
(*  - The call of a function that may raise yields a record whose tag is   *)
(*    "ok" or the name of the exception.                                   *)
(***************************************************************************)
EXTENDS Integers, Sequences, FiniteSets, TLC

VARIABLES
    content,     \* the content root on disk: its yaml files and section directories
    phase,       \* "authoring" until create_app has run, then "served" or "failed"
    sectionsRead,\* what _read_section_from_disk returned, in directory iteration order
    portfolio,   \* Optional: the Portfolio discover_portfolio returned
    raised,      \* Optional: the exception discover_portfolio raised
    app,         \* Optional: the slug lookup of create_app
    entryDirectory, \* one entry directory with named files: [name, yamls]
    entryRead,      \* Optional: what reading entryDirectory gave
    mediaDirectory, \* the media output directory: file name -> Optional file content
    sourceFiles,    \* the media files beside a descriptor: path -> Optional image
    lastCall,       \* Optional: the latest call of render_local_media
    prevCall,       \* Optional: the call right before it, nothing in between
    numCalls,       \* calls of render_local_media made so far
    descriptor,     \* a descriptor file: [element_type, path, fields]
    numEdits,       \* edits made to the descriptor file so far
    reader,         \* the package whose read_portfolio_element read it
    readResult,     \* Optional: what read_portfolio_element gave for descriptor
    printed,        \* the lines printed while descriptor was read
    mediums,        \* the mediums list of an entry descriptor
    mediumsRenderer,\* the package whose _render_mediums was called
    renderedMediums,\* Optional: what _render_mediums returned for mediums
    disk,           \* a whole portfolio on disk, with its media files
    staticContent,  \* static_content_directory: file name -> Optional content
    lastRun,        \* Optional: the latest run of discover_portfolio on disk
    poolGallery,    \* the local_media list of one entry descriptor
    poolForce,      \* force_rewrite of the image config the pool works with
    poolWorkers,    \* per item of poolGallery, where its worker is
    poolDirectory,  \* the media directory the workers write to
    entryStep,      \* where _read_entry_from_disk is in the entry it reads
    serializedLocalMedia, \* Optional: serialized_entry.local_media
    tasks,          \* per item handed to Pool.map: "queued", "running", "finished"
    finishOrder,    \* the items in the order their tasks finished
    localMedia      \* Optional: the local_media of the entry being rendered

discoveryVars == <<content, phase, sectionsRead, portfolio, raised, app>>
entryVars == <<entryDirectory, entryRead>>
mediaVars == <<mediaDirectory, sourceFiles, lastCall, prevCall, numCalls>>
schemaVars == <<descriptor, numEdits, reader, readResult, printed>>
mediumsVars == <<mediums, mediumsRenderer, renderedMediums>>
runVars == <<disk, staticContent, lastRun>>
poolVars == <<poolGallery, poolForce, poolWorkers, poolDirectory>>
readEntryVars == <<entryStep, serializedLocalMedia, tasks, finishOrder, localMedia>>
vars == <<discoveryVars, entryVars, mediaVars, schemaVars, mediumsVars, runVars, poolVars,
          readEntryVars>>

(***************************************************************************)
(* Bounds of the model and the sets the inputs are drawn from.             *)
(***************************************************************************)
MaxEntries == 3
MaxNameLen == 3
MaxCalls == 3
MaxEdits == 2
MaxMediums == 2
MaxRunEntries == 2
MaxGallery == 2
MaxItems == 6

SectionNames == {"esologic", "telapush"}
Stems == {"a", "b"}
CompletionDates == {1, 2}
SectionDescriptions == {[rank |-> 1, primary_color |-> "red"],
                        [rank |-> 2, primary_color |-> "blue"]}

YAML_EXTENSION == "yaml"

None == <<>>
Some(x) == <<x>>

(***************************************************************************)
(* pathlib: PurePath.suffix and PurePath.with_suffix("") on names held as  *)
(* dot-separated components. A name has a suffix when a dot that is not    *)
(* its first character is followed by at least one character.              *)
(***************************************************************************)
HasSuffix(name) ==
    /\ Len(name) >= 2
    /\ ~(Len(name) = 2 /\ name[1] = "")
    /\ name[Len(name)] # ""

WithSuffixEmpty(name) ==
    IF HasSuffix(name) THEN SubSeq(name, 1, Len(name) - 1) ELSE name

(***************************************************************************)
(* sorted(iterable, key=..., reverse=...) on integer keys. Python's sort   *)
(* is stable, and reverse=True keeps the original order of the elements    *)
(* with equal keys: the element at index i lands behind every element      *)
(* whose key goes first and behind the equal-keyed elements before i.      *)
(* keys is the sequence of the elements' sort keys.                        *)
(***************************************************************************)
SortedPosition(keys, i, reverse) ==
    1 + Cardinality({j \in DOMAIN keys :
                        \/ IF reverse THEN keys[j] > keys[i] ELSE keys[j] < keys[i]
                        \/ keys[j] = keys[i] /\ j < i})

Sorted(seq, keys, reverse) ==
    [p \in DOMAIN seq |->
        seq[CHOOSE i \in DOMAIN seq : SortedPosition(keys, i, reverse) = p]]

RECURSIVE Chain(_)
Chain(seqs) ==
    IF seqs = <<>> THEN <<>> ELSE Head(seqs) \o Chain(Tail(seqs))

Min(S) == CHOOSE x \in S : \A y \in S : x <= y
Max(S) == CHOOSE x \in S : \A y \in S : x >= y

(***************************************************************************)
(* The content on disk.                                                    *)
(*   content  = [dir, yamls, sections]   the portfolio root                *)
(*   section  = [dir, yamls, description, entries]                         *)
(*   entry    = [dir, yamls, entry]                                        *)
(* dir is the directory's path from the root (<<>>, <<i>>, <<i, j>>: the   *)
(* j-th directory iterdir() yields in the i-th section directory), yamls   *)
(* is what directory.glob("*.yaml") lists, description and entry are what  *)
(* the descriptor file deserializes to. In the specifications of this      *)
(* part every descriptor passes the schema and every media file exists.    *)
(***************************************************************************)
PortfolioYaml == <<"portfolio", YAML_EXTENSION>>
SectionYaml == <<"section", YAML_EXTENSION>>
OtherYaml == <<"notes", YAML_EXTENSION>>
EntryYaml(stem) == <<stem, YAML_EXTENSION>>

DefaultSectionDescription == [rank |-> 1, primary_color |-> "red"]
DefaultEntry == [completion_date |-> 1, visible |-> TRUE]

NumEntries(root) ==
    LET RECURSIVE Count(_)
        Count(i) == IF i = 0 THEN 0
                    ELSE Len(root.sections[i].entries) + Count(i - 1)
    IN Count(Len(root.sections))

(***************************************************************************)
(* _find_yaml                                                              *)
(***************************************************************************)
\* Mutant: without the check for more than one file, the first one is taken.
FindYamlFirstOfMany(directory) ==
    IF directory.yamls = <<>>
    THEN [tag |-> "ValueError", message |-> "Couldn't find a yaml in directory",
          directory |-> directory.dir]
    ELSE [tag |-> "ok", path |-> [parent |-> directory.dir,
                                  name |-> directory.yamls[1]]]

FindYaml(directory) ==
    IF Len(directory.yamls) > 1
    THEN [tag |-> "ValueError", message |-> "Found too many yaml files in dir",
          directory |-> directory.dir]
    ELSE IF directory.yamls = <<>>
    THEN [tag |-> "ValueError", message |-> "Couldn't find a yaml in directory",
          directory |-> directory.dir]
    ELSE [tag |-> "ok", path |-> [parent |-> directory.dir,
                                  name |-> directory.yamls[1]]]

(***************************************************************************)
(* _read_entry_from_disk: the RenderedEntryWithoutNeighbors of one entry.  *)
(***************************************************************************)
\* Mutant: the slug taken from the directory that holds the descriptor.
EntrySlugFromParent(yaml_path) == yaml_path.parent

EntrySlug(yaml_path) == WithSuffixEmpty(yaml_path.name)

\* The fields that neither the ordering nor the neighbors nor the
\* visibility filter look at are held by a value named after the field.
ReadEntryFromDisk(yaml_path, serialized_entry, primary_color) ==
    [slug |-> EntrySlug(yaml_path),
     title |-> "title",
     description |-> "description",
     explanation |-> "explanation",
     featured_media |-> "featured_media",
     local_media |-> "local_media",
     youtube_videos |-> "youtube_videos",
     size |-> "size",
     domain |-> "domain",
     primary_url |-> "primary_url",
     secondary_urls |-> "secondary_urls",
     press_urls |-> "press_urls",
     completion_date |-> serialized_entry.completion_date,
     completion_date_verbose |-> "completion_date_verbose",
     completion_year |-> "completion_year",
     team_size |-> "team_size",
     involvement |-> "involvement",
     mediums |-> "mediums",
     primary_color |-> primary_color,
     favicon_path |-> "favicon_path",
     top_image |-> "top_image",
     visible |-> serialized_entry.visible]

(***************************************************************************)
(* _read_section_from_disk. Each element of entries is [e, src]: e is the  *)
(* RenderedEntryWithoutNeighbors and src the directory it was read from,   *)
(* which the program does not keep and the model carries along to tell     *)
(* apart two entries that render to equal records.                         *)
(***************************************************************************)
Reversed(seq) == [i \in DOMAIN seq |-> seq[Len(seq) + 1 - i]]

\* Mutant: sorted ascending and then reversed, which turns the ties around.
SectionEntriesSortedThenReversed(entries) ==
    Reversed(Sorted(entries,
                    [i \in DOMAIN entries |-> entries[i].e.completion_date], FALSE))

SectionEntriesSorted(entries) ==
    Sorted(entries, [i \in DOMAIN entries |-> entries[i].e.completion_date], TRUE)

ReadSectionFromDisk(section_directory) ==
    LET found == FindYaml(section_directory)
        paths == section_directory.entries
        yaml(i) == FindYaml(paths[i])
        failing == {i \in DOMAIN paths : yaml(i).tag # "ok"}
        primary_color == section_directory.description.primary_color
        read == [i \in DOMAIN paths |->
                    [e |-> ReadEntryFromDisk(yaml(i).path, paths[i].entry, primary_color),
                     src |-> paths[i].dir]]
    IN  IF found.tag # "ok" THEN found
        ELSE IF failing # {} THEN yaml(Min(failing))
        ELSE [tag |-> "ok",
              section |-> [dir |-> section_directory.dir,
                           entries |-> SectionEntriesSorted(read),
                           primary_color |-> primary_color,
                           rank |-> section_directory.description.rank]]

(***************************************************************************)
(* _fill_entry_neighbors                                                   *)
(***************************************************************************)
\* Mutant: completion_date_verbose filled from completion_year.
FillEntryNeighborsMixingUpDates(entry, previous_next) ==
    [field \in DOMAIN entry \cup {"previous_entry", "next_entry"} |->
        CASE field = "previous_entry" -> previous_next[1]
          [] field = "next_entry" -> previous_next[2]
          [] field = "completion_date_verbose" -> entry.completion_year
          [] OTHER -> entry[field]]

FillEntryNeighbors(entry, previous_next) ==
    LET previous_entry == previous_next[1]
        next_entry == previous_next[2]
    IN  [slug |-> entry.slug,
         title |-> entry.title,
         description |-> entry.description,
         explanation |-> entry.explanation,
         featured_media |-> entry.featured_media,
         local_media |-> entry.local_media,
         youtube_videos |-> entry.youtube_videos,
         size |-> entry.size,
         domain |-> entry.domain,
         primary_url |-> entry.primary_url,
         secondary_urls |-> entry.secondary_urls,
         press_urls |-> entry.press_urls,
         completion_date |-> entry.completion_date,
         completion_date_verbose |-> entry.completion_date_verbose,
         completion_year |-> entry.completion_year,
         team_size |-> entry.team_size,
         involvement |-> entry.involvement,
         mediums |-> entry.mediums,
         primary_color |-> entry.primary_color,
         favicon_path |-> entry.favicon_path,
         top_image |-> entry.top_image,
         previous_entry |-> previous_entry,
         next_entry |-> next_entry,
         visible |-> entry.visible]

(***************************************************************************)
(* discover_portfolio                                                      *)
(***************************************************************************)
\* Mutant: sorted by descending rank and then reversed.
SectionsSortedThenReversed(sections) ==
    Reversed(Sorted(sections, [i \in DOMAIN sections |-> sections[i].rank], TRUE))

SectionsSorted(sections) ==
    Sorted(sections, [i \in DOMAIN sections |-> sections[i].rank], FALSE)

\* at_index, on the 1-based sequence: i < 0 and IndexError both give None.
AtIndex(entries, i) ==
    IF i < 1 THEN None
    ELSE IF i > Len(entries) THEN None
    ELSE Some(entries[i].e)

\* The dict comprehension keyed by the entry records themselves: of the
\* indexes that hold equal records, the last one written stays.
NeighborLookup(entries) ==
    [entry \in {entries[i].e : i \in DOMAIN entries} |->
        LET index == Max({i \in DOMAIN entries : entries[i].e = entry})
        IN  <<AtIndex(entries, index - 1), AtIndex(entries, index + 1)>>]

IsVisible(wrapped) == wrapped.e.visible

\* Mutant: the comprehension without its "if entry.visible".
AllEntries(entries) == entries

VisibleEntries(entries) == SelectSeq(entries, IsVisible)

SectionsWithEntryNeighbors(sections, lookup) ==
    [s \in DOMAIN sections |->
        LET kept == VisibleEntries(sections[s].entries)
        IN  [dir |-> sections[s].dir,
             entries |-> [k \in DOMAIN kept |->
                            [r |-> FillEntryNeighbors(kept[k].e, lookup[kept[k].e]),
                             src |-> kept[k].src]],
             primary_color |-> sections[s].primary_color,
             rank |-> sections[s].rank]]

DiscoverPortfolio(sections_directory) ==
    LET found == FindYaml(sections_directory)
        dirs == sections_directory.sections
        read(i) == ReadSectionFromDisk(dirs[i])
        failing == {i \in DOMAIN dirs : read(i).tag # "ok"}
        done == IF found.tag # "ok" THEN 0
                ELSE IF failing # {} THEN Min(failing) - 1
                ELSE Len(dirs)
        sections_read == [i \in 1..done |-> read(i).section]
        sections == SectionsSorted(sections_read)
        entries == Chain([i \in DOMAIN sections |-> sections[i].entries])
        lookup == NeighborLookup(entries)
    IN  IF found.tag # "ok" THEN [tag |-> found.tag, exception |-> found,
                                  sections_read |-> sections_read]
        ELSE IF failing # {} THEN [tag |-> read(Min(failing)).tag,
                                   exception |-> read(Min(failing)),
                                   sections_read |-> sections_read]
        ELSE [tag |-> "ok",
              sections_read |-> sections_read,
              portfolio |-> [sections |-> SectionsWithEntryNeighbors(sections, lookup)]]

(***************************************************************************)
(* create_app: the lookup from slug to entry; a later entry with the same  *)
(* slug replaces an earlier one.                                           *)
(***************************************************************************)
SlugLookup(current_portfolio) ==
    LET entries == Chain([i \in DOMAIN current_portfolio.sections |->
                            current_portfolio.sections[i].entries])
    IN  [slug \in {entries[i].r.slug : i \in DOMAIN entries} |->
            entries[Max({i \in DOMAIN entries : entries[i].r.slug = slug})]]

(***************************************************************************)
(* Actions. The content is authored directory by directory, then create_app*)
(* runs discover_portfolio on it.                                          *)
(***************************************************************************)
DiscoveryInit(root_yamls) ==
    /\ content = [dir |-> <<>>, yamls |-> root_yamls, sections |-> <<>>]
    /\ phase = "authoring"
    /\ sectionsRead = <<>>
    /\ portfolio = None
    /\ raised = None
    /\ app = None

\* The parts of the state a specification does not use stay as they are here.
DiscoveryIdle == DiscoveryInit(<<PortfolioYaml>>)

EntryIdle ==
    /\ entryDirectory = [name |-> <<"entry">>, yamls |-> <<>>]
    /\ entryRead = None

(***************************************************************************)
(* images.py. An image is [pixels, animated]; the file render_local_media  *)
(* saves is described by what it was made from and how: the pixels of the  *)
(* source, scaled to fit max_dimensions, encoded at quality (the animated  *)
(* branch passes no quality to save).                                      *)
(***************************************************************************)
Images == {[pixels |-> "first", animated |-> FALSE],
           [pixels |-> "second", animated |-> TRUE]}

\* Paths a media descriptor may name, relative to its descriptor file.
MediaPaths == {[dirs |-> <<>>, name |-> <<"a", "png">>],
               [dirs |-> <<"img">>, name |-> <<"a", "png">>]}

IconFileName == <<"a_icon", "png">>

OutputNames == {path.name : path \in MediaPaths} \cup {IconFileName}

MediaLabel == "A label."

\* render_markdown: the text comes back wrapped in a paragraph.
RenderMarkdown(text) == <<"<p>", text, "</p>">>

\* The ImagesConfig create_app passes to discover_portfolio.
AppImagesConfig(write_images) ==
    [large_image_max_dimensions |-> <<2000, 2000>>,
     small_image_max_dimensions |-> <<500, 500>>,
     icon_max_dimensions |-> <<50, 50>>,
     quality |-> 95,
     force_rewrite |-> write_images]

\* Mutant: the icon size does not take force_rewrite over.
UnpackImageSizesIconNeverForced(images_config) ==
    [large |-> [max_dimensions |-> images_config.large_image_max_dimensions,
                quality |-> images_config.quality,
                force_rewrite |-> images_config.force_rewrite],
     small |-> [max_dimensions |-> images_config.small_image_max_dimensions,
                quality |-> images_config.quality,
                force_rewrite |-> images_config.force_rewrite],
     icon |-> [max_dimensions |-> images_config.icon_max_dimensions,
               quality |-> images_config.quality,
               force_rewrite |-> FALSE]]

UnpackImageSizes(images_config) ==
    [large |-> [max_dimensions |-> images_config.large_image_max_dimensions,
                quality |-> images_config.quality,
                force_rewrite |-> images_config.force_rewrite],
     small |-> [max_dimensions |-> images_config.small_image_max_dimensions,
                quality |-> images_config.quality,
                force_rewrite |-> images_config.force_rewrite],
     icon |-> [max_dimensions |-> images_config.icon_max_dimensions,
               quality |-> images_config.quality,
               force_rewrite |-> images_config.force_rewrite]]

\* Lines 71-96: what is saved to output_path.
SavedImage(image, image_config) ==
    IF image.animated
    THEN [pixels |-> image.pixels, animated |-> TRUE,
          fits |-> image_config.max_dimensions, quality |-> None]
    ELSE [pixels |-> image.pixels, animated |-> FALSE,
          fits |-> image_config.max_dimensions, quality |-> Some(image_config.quality)]

OutputName(new_file_name, local_media) ==
    IF new_file_name = None THEN local_media.path.name ELSE new_file_name[1]

\* Mutant: the output is regenerated whether or not it exists.
RenderLocalMediaAlwaysWrites(media_directory, sources, new_file_name, image_config, local_media) ==
    LET name == OutputName(new_file_name, local_media)
        source == sources[local_media.path]
    IN  IF source = None
        THEN [ret |-> [tag |-> "FileNotFoundError"],
              directory |-> media_directory, read |-> TRUE, wrote |-> FALSE]
        ELSE [ret |-> [tag |-> "ok",
                       value |-> [label |-> RenderMarkdown(local_media.label),
                                  path |-> name]],
              directory |-> [media_directory EXCEPT
                                ![name] = Some(SavedImage(source[1], image_config))],
              read |-> TRUE, wrote |-> TRUE]

\* render_local_media. media_directory and sources are the files the call
\* finds (sources: those beside yaml_path); the result holds what the call
\* returned or raised, the media directory it leaves, and whether it opened
\* the source and whether it saved the output.
RenderLocalMedia(media_directory, sources, new_file_name, image_config, local_media) ==
    LET name == OutputName(new_file_name, local_media)
        source == sources[local_media.path]
        returned == [tag |-> "ok",
                     value |-> [label |-> RenderMarkdown(local_media.label),
                                path |-> name]]
    IN  IF media_directory[name] = None \/ image_config.force_rewrite
        THEN IF source = None
             THEN [ret |-> [tag |-> "FileNotFoundError"],
                   directory |-> media_directory, read |-> TRUE, wrote |-> FALSE]
             ELSE [ret |-> returned,
                   directory |-> [media_directory EXCEPT
                                    ![name] = Some(SavedImage(source[1], image_config))],
                   read |-> TRUE, wrote |-> TRUE]
        ELSE [ret |-> returned,
              directory |-> media_directory, read |-> FALSE, wrote |-> FALSE]

MediaIdle ==
    /\ mediaDirectory = [name \in OutputNames |-> None]
    /\ sourceFiles = [path \in MediaPaths |-> None]
    /\ lastCall = None
    /\ prevCall = None
    /\ numCalls = 0

(***************************************************************************)
(* Characters. A string is the sequence of its characters.                 *)
(***************************************************************************)
\* The characters of the texts, of the Medium values and of their
\* renderings, in the order of their code points.
CodePointOrder ==
    <<" ", "#", "-", ".", "/", "3", "A", "B", "C", "D", "E", "F", "G", "H", "I", "J", "K",
    "L", "M", "N", "O", "P", "Q", "R", "S", "T", "U", "V", "W", "X", "Y",
    "Z", "a", "b", "c", "d", "e", "f", "g", "h", "i", "j", "k", "l", "m",
    "n", "o", "p", "q", "r", "s", "t", "u", "v", "w", "x", "y", "z">>

Ord(c) == CHOOSE i \in DOMAIN CodePointOrder : CodePointOrder[i] = c

IsUpper(c) == Ord(c) \in Ord("A")..Ord("Z")
IsLower(c) == Ord(c) \in Ord("a")..Ord("z")
IsCased(c) == IsUpper(c) \/ IsLower(c)
Upper(c) == IF IsLower(c) THEN CodePointOrder[Ord(c) - Ord("a") + Ord("A")] ELSE c
Lower(c) == IF IsUpper(c) THEN CodePointOrder[Ord(c) - Ord("A") + Ord("a")] ELSE c

(***************************************************************************)
(* schema.py. A descriptor file is held by the values of its designated    *)
(* text fields (those typed ValidatedString, the labels of the nested      *)
(* LocalMedia, Link and YouTubeVideo mappings included; of a list, the     *)
(* label of one item); its other fields are well-formed. A value is what   *)
(* the YAML loader hands over: a string (its characters), a scalar that is *)
(* no string, such as the integer of "label: 2019", or nothing when an     *)
(* optional field is left out. Beside them the file has a top level (the   *)
(* mapping it should be, nothing at all, or a sequence), at most one       *)
(* defect in a field that is no designated text, and possibly a top-level  *)
(* key the schema does not define.                                         *)
(***************************************************************************)
Packages == {"content_api", "content"}

TopLevels == {"mapping", "empty", "sequence"}

Defects == {"none", "missing_required", "bad_enum", "bad_date", "bad_url"}

ElementTypes == {"SerializedEntry", "SerializedSectionDescription",
                 "SerializedPortfolioDescription"}

RequiredText(element_type) ==
    CASE element_type = "SerializedEntry" ->
            {"description", "explanation", "featured_media.label",
             "primary_url.label", "involvement"}
      [] element_type = "SerializedSectionDescription" ->
            {"description", "logo.label"}
      [] element_type = "SerializedPortfolioDescription" ->
            {"description", "explanation", "conclusion", "contact_urls.label",
             "header_top_image.label", "header_bottom_image.label",
             "return_image.label", "icon.label", "portrait.label"}

OptionalText(element_type) ==
    CASE element_type = "SerializedEntry" ->
            {"local_media.label", "youtube_videos.label",
             "secondary_urls.label", "press_urls.label"}
      [] element_type = "SerializedSectionDescription" -> {}
      [] element_type = "SerializedPortfolioDescription" ->
            {"header_background.label"}

TextFields(element_type) == RequiredText(element_type) \cup OptionalText(element_type)

Str(text) == [yaml |-> "str", text |-> text]
NotStr == [yaml |-> "int", text |-> <<>>]
LeftOut == [yaml |-> "absent", text |-> <<>>]

\* "a" is a word the spell checker knows, "b" one it does not know.
Texts == {<<>>, <<"a">>, <<"a", ".">>, <<".", "a">>, <<".">>,
          <<"A", "-", "b", ".">>}

FieldValues == {Str(text) : text \in Texts} \cup {NotStr, LeftOut}

DescriptorPath(element_type) ==
    CASE element_type = "SerializedEntry" -> [parent |-> <<1, 1>>, name |-> EntryYaml("a")]
      [] element_type = "SerializedSectionDescription" -> [parent |-> <<1>>, name |-> SectionYaml]
      [] element_type = "SerializedPortfolioDescription" -> [parent |-> <<>>, name |-> PortfolioYaml]

\* A descriptor as it should be written.
WellFormed(element_type) ==
    [element_type |-> element_type,
     path |-> DescriptorPath(element_type),
     top_level |-> "mapping",
     defect |-> "none",
     extra_key |-> FALSE,
     fields |-> [f \in TextFields(element_type) |->
                    IF f \in RequiredText(element_type)
                    THEN Str(<<"a", ".">>) ELSE LeftOut]]

\* ValidatedString.ends_with_period: value.endswith(".")
EndsWithPeriod(text) == text # <<>> /\ text[Len(text)] = "."

\* GLOBAL_CHECKER = SpellChecker(): the words its dictionary holds.
GLOBAL_CHECKER == {<<"a">>}

\* string.punctuation, but for the grave accent, which no text here holds.
StringPunctuation ==
    {"!", "\"", "#", "$", "%", "&", "(", ")", "*", "+", ",", "-", ".", "/",
     ":", ";", "<", "=", ">", "?", "@", "[", "\\", "]", "^", "_", "{", "|",
     "}", "~", "'"}

\* str.split(" "): the pieces between single spaces, empty ones included.
RECURSIVE SplitOnSpace(_)
SplitOnSpace(text) ==
    LET spaces == {i \in DOMAIN text : text[i] = " "}
    IN  IF spaces = {} THEN <<text>>
        ELSE LET i == Min(spaces)
             IN  <<SubSeq(text, 1, i - 1)>>
                     \o SplitOnSpace(SubSeq(text, i + 1, Len(text)))

\* clean_and_split: punctuation other than "-" and "/" is deleted, "-" and
\* "/" become spaces, the text is lower-cased and split at the spaces.
CleanAndSplit(value) ==
    LET become_spaces == {"-", "/"}
        delete == StringPunctuation \ become_spaces
        deleted == SelectSeq(value, LAMBDA character : character \notin delete)
        spaced == [i \in DOMAIN deleted |->
                      IF deleted[i] \in become_spaces THEN " " ELSE deleted[i]]
        lower_case == [i \in DOMAIN spaced |-> Lower(spaced[i])]
    IN  SplitOnSpace(lower_case)

\* The words of value that GLOBAL_CHECKER.unknown gives: those its
\* dictionary does not hold.
Misspelled(value) ==
    LET words == CleanAndSplit(value)
    IN  {words[i] : i \in DOMAIN words} \ GLOBAL_CHECKER

\* A spell check that rejects a text with an unknown word.
WarnOnMisspellingRaising(value) ==
    IF Misspelled(value) # {}
    THEN [tag |-> "ValueError", printed |-> {}]
    ELSE [tag |-> "ok", value |-> value, printed |-> {}]

\* ValidatedString.warn_on_misspelling: one line printed for each unknown
\* word, and the value returned as it came.
WarnOnMisspelling(value) ==
    [tag |-> "ok",
     value |-> value,
     printed |-> {[word |-> word, value |-> value] : word \in Misspelled(value)}]

\* What pydantic makes of one ValidatedString field: nothing to validate
\* ("skipped"), an error it collects ("error": a required field left out,
\* or a ValueError of one of the validators ends_with_period and
\* warn_on_misspelling, called in this order, the second on what the first
\* returned), the value ("valid"), or the AttributeError of calling endswith
\* on a value that is no string, which is none of the exceptions pydantic
\* collects ("AttributeError").
ValidatedString(value, required) ==
    IF value.yaml = "absent" THEN (IF required THEN "error" ELSE "skipped")
    ELSE IF value.yaml # "str" THEN "AttributeError"
    ELSE IF ~EndsWithPeriod(value.text) THEN "error"
    ELSE IF WarnOnMisspelling(value.text).tag # "ok" THEN "error"
    ELSE "valid"

\* The lines warn_on_misspelling prints while one field is validated: it is
\* called only for a string that ends_with_period has returned.
PrintedFor(value) ==
    IF value.yaml = "str" /\ EndsWithPeriod(value.text)
    THEN WarnOnMisspelling(value.text).printed
    ELSE {}

\* read_yaml: dict(yaml.load(f)). An empty file loads as None and a
\* sequence of one-character scalars as a list; dict() raises on both.
ReadYaml(file) ==
    CASE file.top_level = "mapping" -> [tag |-> "ok"]
      [] file.top_level = "empty" ->
            [tag |-> "TypeError", message |-> "'NoneType' object is not iterable"]
      [] file.top_level = "sequence" ->
            [tag |-> "ValueError",
             message |-> "dictionary update sequence element #0 has length 1; 2 is required"]

\* Config.extra of the models: InputReader of content_api sets "forbid";
\* the models of the content package set nothing (pydantic: "ignore").
ExtraForbidden(package) == package = "content_api"

\* read_portfolio_element: element_type(**read_yaml(yaml_path)), with the
\* ValidationError turned into the ValueError that names type and file.
\* pydantic validates the fields one after the other and collects their
\* errors, then those of the keys it does not know; an exception that is
\* no ValueError, TypeError or AssertionError leaves the validation at once.
ReadPortfolioElement(package, file) ==
    LET outcome(f) == ValidatedString(file.fields[f],
                                      f \in RequiredText(file.element_type))
        outcomes == {outcome(f) : f \in DOMAIN file.fields}
        yaml == ReadYaml(file)
    IN  IF yaml.tag # "ok" THEN yaml
        ELSE IF "AttributeError" \in outcomes
        THEN [tag |-> "AttributeError"]
        ELSE IF \/ "error" \in outcomes
                \/ file.defect # "none"
                \/ (file.extra_key /\ ExtraForbidden(package))
        THEN [tag |-> "ValueError",
              message |-> "Couldn't validate to schema",
              element_type |-> file.element_type,
              file |-> file.path]
        ELSE [tag |-> "ok", element |-> file.fields]

\* The designated text fields in the order pydantic validates them: the
\* order the classes declare them in, those of InputReader first.
FieldOrder(element_type) ==
    CASE element_type = "SerializedEntry" ->
            <<"description", "explanation", "featured_media.label",
              "local_media.label", "youtube_videos.label", "primary_url.label",
              "secondary_urls.label", "press_urls.label", "involvement">>
      [] element_type = "SerializedSectionDescription" ->
            <<"description", "logo.label">>
      [] element_type = "SerializedPortfolioDescription" ->
            <<"description", "explanation", "conclusion", "contact_urls.label",
              "header_top_image.label", "header_bottom_image.label",
              "return_image.label", "icon.label", "portrait.label",
              "header_background.label">>

\* What a read of file prints. The fields are validated one after the
\* other; an AttributeError leaves the validation at its field, with the
\* fields after it not validated.
PrintedByRead(file) ==
    LET order == FieldOrder(file.element_type)
        raising == {i \in DOMAIN order : file.fields[order[i]].yaml = "int"}
        validated == IF raising = {} THEN DOMAIN order
                     ELSE {i \in DOMAIN order : i < Min(raising)}
    IN  IF ReadYaml(file).tag # "ok" THEN {}
        ELSE UNION {PrintedFor(file.fields[order[i]]) : i \in validated}

SchemaIdle ==
    /\ descriptor = WellFormed("SerializedEntry")
    /\ numEdits = 0
    /\ reader = "content_api"
    /\ readResult = None
    /\ printed = {}

(***************************************************************************)
(* _render_mediums. A string is the sequence of its characters.            *)
(***************************************************************************)
\* The values of schema.Medium.
Medium ==
    {<<"l", "a", "s", "e", "r", " ", "c", "u", "t", "t", "e", "r">>,
     <<"3", "d", " ", "p", "r", "i", "n", "t", "e", "r">>,
     <<"a", "r", "d", "u", "i", "n", "o">>,
     <<"f", "r", "i", "t", "z", "i", "n", "g">>,
     <<"b", "r", "e", "a", "d", "b", "o", "a", "r", "d", " ", "e", "l", "e",
     "c", "t", "r", "o", "n", "i", "c", "s">>,
     <<"p", "r", "o", "t", "o", "b", "o", "a", "r", "d", " ", "e", "l", "e",
     "c", "t", "r", "o", "n", "i", "c", "s">>,
     <<"p", "c", "b", " ", "e", "l", "e", "c", "t", "r", "o", "n", "i", "c",
     "s">>,
     <<"e", "l", "e", "c", "t", "r", "i", "c", "a", "l", " ", "c", "a",
     "d">>,
     <<"m", "e", "c", "h", "a", "n", "i", "c", "a", "l", " ", "c", "a",
     "d">>,
     <<"c", "#">>,
     <<"p", "y", "t", "h", "o", "n">>,
     <<"r", "a", "s", "p", "b", "e", "r", "r", "y", " ", "p", "i">>,
     <<"l", "e", "d", " ", "a", "r", "t">>,
     <<"t", "w", "i", "t", "t", "e", "r">>,
     <<"f", "r", "o", "n", "t", "e", "n", "d", " ", "w", "e", "b", " ", "d",
     "e", "v", "e", "l", "o", "p", "m", "e", "n", "t">>,
     <<"p", "h", "o", "t", "o", "g", "r", "a", "p", "h", "y">>,
     <<"e", "v", "e", "n", "t", "s">>,
     <<"a", "p", "p", "a", "r", "e", "l">>,
     <<"a", "r", "t", "i", "f", "i", "c", "i", "a", "l", " ", "i", "n", "t",
     "e", "l", "l", "i", "g", "e", "n", "c", "e">>}

\* _capitalize_string: str.title(text). A cased character is upper-cased when
\* the character before it is not cased (or there is none), lower-cased
\* otherwise.
CapitalizeString(text) ==
    [i \in DOMAIN text |->
        IF i = 1 \/ ~IsCased(text[i - 1]) THEN Upper(text[i]) ELSE Lower(text[i])]

\* string.capwords(text), which the content package uses in place of
\* str.title: the words between spaces, each with its first character
\* upper-cased and the others lower-cased (the Medium values hold single
\* spaces only).
CapWords(text) ==
    [i \in DOMAIN text |->
        IF i = 1 \/ text[i - 1] = " " THEN Upper(text[i]) ELSE Lower(text[i])]

Capitalized(package, text) ==
    IF package = "content_api" THEN CapitalizeString(text) ELSE CapWords(text)

\* text[i..] starts with sub
StartsWithAt(text, i, sub) ==
    /\ i + Len(sub) - 1 <= Len(text)
    /\ \A k \in DOMAIN sub : text[i + k - 1] = sub[k]

\* sub in text
Contains(text, sub) == \E i \in 1..Len(text) : StartsWithAt(text, i, sub)

\* text.replace(bad, good): the occurrences of bad, left to right and not
\* overlapping.
RECURSIVE Replace(_, _, _)
Replace(text, bad, good) ==
    IF text = <<>> THEN <<>>
    ELSE IF StartsWithAt(text, 1, bad)
    THEN good \o Replace(SubSeq(text, Len(bad) + 1, Len(text)), bad, good)
    ELSE <<text[1]>> \o Replace(Tail(text), bad, good)

Replacements ==
    << [bad |-> <<"3", "d">>, good |-> <<"3", "D">>],
       [bad |-> <<"C", "a", "d">>, good |-> <<"C", "A", "D">>],
       [bad |-> <<"L", "e", "d">>, good |-> <<"L", "E", "D">>],
       [bad |-> <<"P", "c", "b">>, good |-> <<"P", "C", "B">>] >>

\* convert: the first replacement whose bad is in medium is applied, alone.
Convert(medium) ==
    LET found == {i \in DOMAIN Replacements : Contains(medium, Replacements[i].bad)}
    IN  IF found = {} THEN medium
        ELSE Replace(medium, Replacements[Min(found)].bad, Replacements[Min(found)].good)

\* a < b, as Python compares strings
RECURSIVE StrLess(_, _)
StrLess(a, b) ==
    IF b = <<>> THEN FALSE
    ELSE IF a = <<>> THEN TRUE
    ELSE IF a[1] # b[1] THEN Ord(a[1]) < Ord(b[1])
    ELSE StrLess(Tail(a), Tail(b))

\* sorted(strings)
SortedStrings(strings) ==
    LET position(i) ==
            1 + Cardinality({j \in DOMAIN strings :
                                \/ StrLess(strings[j], strings[i])
                                \/ (strings[j] = strings[i] /\ j < i)})
    IN  [p \in DOMAIN strings |->
            strings[CHOOSE i \in DOMAIN strings : position(i) = p]]

\* Mutant: the converted strings are returned in the order of the input.
RenderMediumsUnsorted(package, tags) ==
    [i \in DOMAIN tags |-> Convert(Capitalized(package, tags[i]))]

RenderMediums(package, tags) ==
    SortedStrings([i \in DOMAIN tags |-> Convert(Capitalized(package, tags[i]))])

MediumsIdle ==
    /\ mediums = <<>>
    /\ mediumsRenderer = "content_api"
    /\ renderedMediums = None

(***************************************************************************)
(* discover_portfolio with its media, step by step in the order of the     *)
(* code. The portfolio on disk is                                          *)
(*   disk = [sections, resume, header_background, fault]                   *)
(* sections[i] is the sequence of the entry directories of the i-th section*)
(* directory, each [stem, gallery]: the descriptor is <stem>.yaml and      *)
(* gallery tells whether it has a local_media list. resume is the Optional *)
(* resume_path of the portfolio descriptor, header_background tells        *)
(* whether that optional field is set. Every directory holds its one       *)
(* descriptor, every descriptor passes the schema and every file a         *)
(* descriptor names exists, but for the Optional fault:                    *)
(*   [kind, dir, field]                                                    *)
(* kind being "no_yaml", "two_yamls", "bad_descriptor" (of directory dir), *)
(* "missing_source" (the file that media field `field` of the descriptor   *)
(* of dir names) or "missing_resume".                                      *)
(***************************************************************************)
RunSectionNames == <<"esologic", "telapush">>

ResumePaths == {<<"cv", "pdf">>, <<"cv">>}

GalleryFields == <<"local_media.1", "local_media.2">>

PortfolioMediaFields ==
    {"return_image", "header_top_image", "header_bottom_image", "icon",
     "portrait", "header_background"}

PortfolioIconName == <<"portfolio_icon", "png">>

\* f"{slug}_icon.png"
FaviconName(slug) ==
    CASE slug = <<"a">> -> <<"a_icon", "png">>
      [] slug = <<"b">> -> <<"b_icon", "png">>

\* The file a media field of the descriptor of directory dir names: in the
\* root, a file named after the field; in a section, one named after the
\* section; in an entry, <stem>.png, and <stem>.1.png, <stem>.2.png for the
\* gallery.
MediaFileName(d, dir, field) ==
    CASE Len(dir) = 0 -> <<field, "png">>
      [] Len(dir) = 1 -> <<RunSectionNames[dir[1]], "png">>
      [] Len(dir) = 2 ->
            LET stem == d.sections[dir[1]][dir[2]].stem
            IN  CASE field = "featured_media" -> <<stem, "png">>
                  [] field = "local_media.1" -> <<stem, "1", "png">>
                  [] field = "local_media.2" -> <<stem, "2", "png">>

\* The LocalMedia a media field holds; None for header_background left out.
LocalMediaOf(d, dir, field) ==
    IF dir = <<>> /\ field = "header_background" /\ ~d.header_background
    THEN None
    ELSE Some([label |-> MediaLabel,
               path |-> [dirs |-> <<>>, name |-> MediaFileName(d, dir, field)]])

ResumeName(resume_path) ==
    IF HasSuffix(resume_path)
    THEN <<"resume", resume_path[Len(resume_path)]>>
    ELSE <<"resume">>

\* All the names a run can write in static_content_directory.
RunOutputNames ==
    {<<field, "png">> : field \in PortfolioMediaFields \ {"icon"}}
    \cup {PortfolioIconName}
    \cup {<<RunSectionNames[i], "png">> : i \in DOMAIN RunSectionNames}
    \cup {<<stem, "png">> : stem \in Stems}
    \cup {<<stem, k, "png">> : stem \in Stems, k \in {"1", "2"}}
    \cup {FaviconName(<<stem>>) : stem \in Stems}
    \cup {ResumeName(resume_path) : resume_path \in ResumePaths}

EmptyDirectory == [name \in RunOutputNames |-> None]

HasFault(d, kind, dir, field) ==
    d.fault = Some([kind |-> kind, dir |-> dir, field |-> field])

\* directory.glob("*.yaml") in the directory dir
YamlsIn(d, dir, yaml) ==
    IF HasFault(d, "no_yaml", dir, "") THEN <<>>
    ELSE IF HasFault(d, "two_yamls", dir, "") THEN <<yaml, OtherYaml>>
    ELSE <<yaml>>

\* The descriptor file of the directory dir.
DescriptorIn(d, dir, element_type, yaml_path) ==
    LET well_formed == [WellFormed(element_type) EXCEPT !.path = yaml_path]
    IN  IF HasFault(d, "bad_descriptor", dir, "")
        THEN [well_formed EXCEPT !.defect = "missing_required"]
        ELSE well_formed

\* The state of a run: the media directory, the calls made so far, the
\* exception that ended it, the return-button image and the entries read.
RunEvent(op, dir, field, name, opened, wrote) ==
    [op |-> op, dir |-> dir, field |-> field, name |-> name,
     opened |-> opened, wrote |-> wrote]

RunStart(media) ==
    [media |-> media, trace |-> <<>>, error |-> None,
     return_button_image |-> None, entries |-> <<>>, resume_path |-> None]

RunFindYaml(st, d, dir, yaml) ==
    IF st.error # None THEN st
    ELSE LET found == FindYaml([dir |-> dir, yamls |-> YamlsIn(d, dir, yaml)])
         IN  IF found.tag # "ok"
             THEN [st EXCEPT !.error = Some(found)]
             ELSE [st EXCEPT !.trace =
                      Append(@, RunEvent("find_yaml", dir, "", None, FALSE, FALSE))]

\* The state of the run after read_portfolio_element has given `read`.
RunElementRead(st, dir, read) ==
    IF read.tag # "ok"
    THEN [st EXCEPT !.error = Some(read)]
    ELSE [st EXCEPT !.trace =
             Append(@, RunEvent("read", dir, "", None, FALSE, FALSE))]

RunReadElement(st, d, package, dir, element_type, yaml) ==
    IF st.error # None THEN st
    ELSE RunElementRead(st, dir,
            ReadPortfolioElement(package,
                DescriptorIn(d, dir, element_type, [parent |-> dir, name |-> yaml])))

\* The files beside the descriptor of dir, for a call that renders `field`.
RunSources(d, dir, field, path) ==
    [p \in {path} |->
        IF HasFault(d, "missing_source", dir, field) THEN None
        ELSE Some([pixels |-> [dir |-> dir, name |-> path.name], animated |-> FALSE])]

\* The state of the run after the call `call` of render_local_media.
RunRendered(st, dir, field, name, call) ==
    [st EXCEPT !.media = call.directory,
               !.trace = Append(@, RunEvent("render", dir, field, Some(name),
                                            call.read, call.wrote)),
               !.error = IF call.ret.tag = "ok" THEN None ELSE Some(call.ret),
               !.return_button_image =
                   IF field = "return_image" /\ call.ret.tag = "ok"
                   THEN Some(call.ret.value) ELSE @]

\* One call of render_local_media for a media field of the descriptor of dir.
RunRender(st, d, force, dir, field, new_file_name, size) ==
    IF st.error # None THEN st
    ELSE LET local_media == LocalMediaOf(d, dir, field)
         IN  IF local_media = None
             THEN [st EXCEPT !.error = Some([tag |-> "TypeError"])]
             ELSE RunRendered(st, dir, field,
                    OutputName(new_file_name, local_media[1]),
                    RenderLocalMedia(st.media,
                        RunSources(d, dir, field, local_media[1].path),
                        new_file_name,
                        UnpackImageSizes(AppImagesConfig(force))[size],
                        local_media[1]))

\* Pool(5).map(media_processor, local_media): every item of the gallery is
\* rendered by a worker, and map raises the first exception once all the
\* items are done. The items of a gallery here have output names of their
\* own, so what one worker does is nothing to the others; the calls are
\* listed in the order of the gallery.
RECURSIVE RunPoolMap(_, _, _, _, _)
RunPoolMap(st, d, force, dir, k) ==
    IF k > Len(GalleryFields) THEN st
    ELSE LET one == RunRender([st EXCEPT !.error = None], d, force, dir,
                              GalleryFields[k], None, "large")
             first == IF st.error # None THEN st.error ELSE one.error
         IN  RunPoolMap([one EXCEPT !.error = first], d, force, dir, k + 1)

\* Lines 254-264: the pool is made for an entry that has a gallery.
RunGallery(st, d, force, dir) ==
    IF d.sections[dir[1]][dir[2]].gallery /\ st.error = None
    THEN RunPoolMap(st, d, force, dir, 1) ELSE st

\* Lines 266-306: the RenderedEntryWithoutNeighbors the call returns.
RunEntryRead(st, dir, slug, top_image) ==
    IF st.error # None THEN st
    ELSE [st EXCEPT !.entries =
             Append(@, [dir |-> dir, slug |-> slug, top_image |-> top_image])]

\* Mutant: an entry that cannot be read is left out and the run goes on.
RunReadEntrySkippingFailures(st, d, force, dir) ==
    IF st.error # None THEN st
    ELSE LET entry == d.sections[dir[1]][dir[2]]
             yaml == EntryYaml(entry.stem)
             slug == EntrySlug([parent |-> dir, name |-> yaml])
             found == RunFindYaml(st, d, dir, yaml)
             read == RunReadElement(found, d, "content_api", dir, "SerializedEntry", yaml)
             gallery == RunGallery(read, d, force, dir)
             featured == RunRender(gallery, d, force, dir, "featured_media",
                                   None, "large")
             favicon == RunRender(featured, d, force, dir, "featured_media",
                                  Some(FaviconName(slug)), "icon")
             returned == RunEntryRead(favicon, dir, slug, st.return_button_image[1])
         IN  [returned EXCEPT !.error = None]

\* _find_yaml of the entry directory dir, then _read_entry_from_disk.
RunReadEntry(st, d, force, dir) ==
    IF st.error # None THEN st
    ELSE LET entry == d.sections[dir[1]][dir[2]]
             yaml == EntryYaml(entry.stem)
             slug == EntrySlug([parent |-> dir, name |-> yaml])
             found == RunFindYaml(st, d, dir, yaml)
             read == RunReadElement(found, d, "content_api", dir, "SerializedEntry", yaml)
             gallery == RunGallery(read, d, force, dir)
             featured == RunRender(gallery, d, force, dir, "featured_media",
                                   None, "large")
             favicon == RunRender(featured, d, force, dir, "featured_media",
                                  Some(FaviconName(slug)), "icon")
         IN  RunEntryRead(favicon, dir, slug, st.return_button_image[1])

RECURSIVE RunReadEntries(_, _, _, _, _)
RunReadEntries(st, d, force, i, j) ==
    IF j > Len(d.sections[i]) THEN st
    ELSE RunReadEntries(RunReadEntry(st, d, force, <<i, j>>), d, force, i, j + 1)

\* _read_section_from_disk: the descriptor, the entries, then the logo.
RunReadSection(st, d, force, i) ==
    LET found == RunFindYaml(st, d, <<i>>, SectionYaml)
        read == RunReadElement(found, d, "content_api", <<i>>,
                               "SerializedSectionDescription", SectionYaml)
        entries == RunReadEntries(read, d, force, i, 1)
    IN  RunRender(entries, d, force, <<i>>, "logo", None, "small")

RECURSIVE RunReadSections(_, _, _, _)
RunReadSections(st, d, force, i) ==
    IF i > Len(d.sections) THEN st
    ELSE RunReadSections(RunReadSection(st, d, force, i), d, force, i + 1)

\* Mutant: the resume is copied under the name it has.
RunCopyResumeKeepingName(st, d) ==
    IF st.error # None \/ d.resume = None THEN st
    ELSE IF HasFault(d, "missing_resume", <<>>, "resume_path")
    THEN [st EXCEPT !.error = Some([tag |-> "FileNotFoundError"])]
    ELSE LET name == ResumeName(d.resume[1])
             copy == [pixels |-> [dir |-> <<>>, name |-> d.resume[1]],
                      animated |-> FALSE, fits |-> None, quality |-> None]
         IN  [st EXCEPT !.media[name] = Some(copy),
                        !.trace = Append(@, RunEvent("copy", <<>>, "resume_path",
                                                     Some(d.resume[1]), TRUE, TRUE)),
                        !.resume_path = Some(d.resume[1])]

\* Lines 522-532: shutil.copy of the resume, whether or not it is there
\* already.
RunCopyResume(st, d) ==
    IF st.error # None \/ d.resume = None THEN st
    ELSE IF HasFault(d, "missing_resume", <<>>, "resume_path")
    THEN [st EXCEPT !.error = Some([tag |-> "FileNotFoundError"])]
    ELSE LET name == ResumeName(d.resume[1])
             copy == [pixels |-> [dir |-> <<>>, name |-> d.resume[1]],
                      animated |-> FALSE, fits |-> None, quality |-> None]
         IN  [st EXCEPT !.media[name] = Some(copy),
                        !.trace = Append(@, RunEvent("copy", <<>>, "resume_path",
                                                     Some(name), TRUE, TRUE)),
                        !.resume_path = Some(name)]

\* What a run that ends in state st leaves and returns.
RunResult(st) ==
    [media |-> st.media,
     trace |-> st.trace,
     raised |-> st.error,
     portfolio |-> IF st.error # None THEN None
                   ELSE Some([entries |-> st.entries,
                              resume_path |-> st.resume_path])]

\* discover_portfolio(sections_directory, static_content_directory,
\* image_config) on disk d, media the static content directory it finds.
DiscoveryRun(d, media, force) ==
    LET found == RunFindYaml(RunStart(media), d, <<>>, PortfolioYaml)
        read == RunReadElement(found, d, "content_api", <<>>,
                               "SerializedPortfolioDescription", PortfolioYaml)
        return_button == RunRender(read, d, force, <<>>, "return_image", None, "small")
        sections == RunReadSections(return_button, d, force, 1)
        resume == RunCopyResume(sections, d)
        top == RunRender(resume, d, force, <<>>, "header_top_image", None, "large")
        bottom == RunRender(top, d, force, <<>>, "header_bottom_image", None, "large")
        icon == RunRender(bottom, d, force, <<>>, "icon", Some(PortfolioIconName), "icon")
        portrait == RunRender(icon, d, force, <<>>, "portrait", None, "large")
        last == RunRender(portrait, d, force, <<>>, "header_background", None, "large")
    IN  RunResult(last)

(***************************************************************************)
(* The content package (content/api.py): the same run as it is written     *)
(* there. _render_local_media takes the size and the force flag as they    *)
(* are, the return image is an argument of each call of                    *)
(* _read_section_from_disk, and after the sections the run reads           *)
(* portfolio_description.resume_path, a field the models of                *)
(* content/schema.py do not have.                                          *)
(***************************************************************************)
RenderLocalMediaContent(media_directory, sources, max_size, output_name, force_recreate, local_media) ==
    LET name == OutputName(output_name, local_media)
        source == sources[local_media.path]
        returned == [tag |-> "ok",
                     value |-> [label |-> RenderMarkdown(local_media.label),
                                path |-> name]]
    IN  IF media_directory[name] = None \/ force_recreate
        THEN IF source = None
             THEN [ret |-> [tag |-> "FileNotFoundError"],
                   directory |-> media_directory, read |-> TRUE, wrote |-> FALSE]
             ELSE [ret |-> returned,
                   directory |-> [media_directory EXCEPT ![name] =
                                    Some([pixels |-> source[1].pixels,
                                          animated |-> source[1].animated,
                                          fits |-> max_size, quality |-> None])],
                   read |-> TRUE, wrote |-> TRUE]
        ELSE [ret |-> returned,
              directory |-> media_directory, read |-> FALSE, wrote |-> FALSE]

RunRenderContent(st, d, force, dir, field, output_name, max_size) ==
    IF st.error # None THEN st
    ELSE LET local_media == LocalMediaOf(d, dir, field)
         IN  RunRendered(st, dir, field,
                OutputName(output_name, local_media[1]),
                RenderLocalMediaContent(st.media,
                    RunSources(d, dir, field, local_media[1].path),
                    max_size, output_name, force, local_media[1]))

RECURSIVE RunPoolMapContent(_, _, _, _, _)
RunPoolMapContent(st, d, force, dir, k) ==
    IF k > Len(GalleryFields) THEN st
    ELSE LET one == RunRenderContent([st EXCEPT !.error = None], d, force, dir,
                                     GalleryFields[k], None, <<3000, 3000>>)
             first == IF st.error # None THEN st.error ELSE one.error
         IN  RunPoolMapContent([one EXCEPT !.error = first], d, force, dir, k + 1)

RunGalleryContent(st, d, force, dir) ==
    IF d.sections[dir[1]][dir[2]].gallery /\ st.error = None
    THEN RunPoolMapContent(st, d, force, dir, 1) ELSE st

RunReadEntryContent(st, d, force, dir, top_image) ==
    IF st.error # None THEN st
    ELSE LET entry == d.sections[dir[1]][dir[2]]
             yaml == EntryYaml(entry.stem)
             slug == EntrySlug([parent |-> dir, name |-> yaml])
             found == RunFindYaml(st, d, dir, yaml)
             read == RunReadElement(found, d, "content", dir, "SerializedEntry", yaml)
             gallery == RunGalleryContent(read, d, force, dir)
             featured == RunRenderContent(gallery, d, force, dir, "featured_media",
                                          None, <<3000, 3000>>)
             favicon == RunRenderContent(featured, d, force, dir, "featured_media",
                                         Some(FaviconName(slug)), <<50, 50>>)
         IN  RunEntryRead(favicon, dir, slug, top_image)

RECURSIVE RunReadEntriesContent(_, _, _, _, _, _)
RunReadEntriesContent(st, d, force, i, j, top_image) ==
    IF j > Len(d.sections[i]) THEN st
    ELSE RunReadEntriesContent(
            RunReadEntryContent(st, d, force, <<i, j>>, top_image),
            d, force, i, j + 1, top_image)

\* _read_section_from_disk with the return image `button` has rendered.
RunReadSectionWithButton(button, d, force, i) ==
    LET found == RunFindYaml(button, d, <<i>>, SectionYaml)
        read == RunReadElement(found, d, "content", <<i>>,
                               "SerializedSectionDescription", SectionYaml)
    IN  IF button.error # None THEN button
        ELSE RunReadEntriesContent(read, d, force, i, 1,
                                   button.return_button_image[1])

\* Line 588: the resume_path of a description that has no such field.
RunResumePathContent(st) ==
    IF st.error # None THEN st
    ELSE [st EXCEPT !.error = Some([tag |-> "AttributeError"])]

\* Lines 530-543: the arguments of _read_section_from_disk, the rendering
\* of return_image among them, then the call.
RunReadSectionContent(st, d, force, i) ==
    LET button == RunRenderContent(st, d, force, <<>>, "return_image", None,
                                   <<4000, 4000>>)
        entries == RunReadSectionWithButton(button, d, force, i)
    IN  RunRenderContent(entries, d, force, <<i>>, "logo", None, <<500, 500>>)

RECURSIVE RunReadSectionsContent(_, _, _, _)
RunReadSectionsContent(st, d, force, i) ==
    IF i > Len(d.sections) THEN st
    ELSE RunReadSectionsContent(RunReadSectionContent(st, d, force, i), d, force, i + 1)

\* discover_portfolio of the content package.
DiscoveryRunContent(d, media, write_images) ==
    LET found == RunFindYaml(RunStart(media), d, <<>>, PortfolioYaml)
        read == RunReadElement(found, d, "content", <<>>,
                               "SerializedPortfolioDescription", PortfolioYaml)
        sections == RunReadSectionsContent(read, d, write_images, 1)
        resume == RunResumePathContent(sections)
    IN  [RunResult(resume) EXCEPT !.portfolio = None]

(***************************************************************************)
(* The gallery pool of _read_entry_from_disk (lines 251-264): Pool(5).map  *)
(* hands every item of local_media to a worker process that runs           *)
(* render_local_media on it. A worker first tests output_path.exists()     *)
(* (images.py:67) and, if it has to, opens the source and saves the output *)
(* (69-96); the processes share nothing but the media directory and take   *)
(* no lock. A worker is "waiting", "saving" (past the test, the output not *)
(* yet saved) or "done".                                                   *)
(***************************************************************************)
GalleryPaths == MediaPaths \cup {[dirs |-> <<>>, name |-> <<"b", "png">>]}

GalleryOutputNames == {path.name : path \in GalleryPaths}

\* The name under which the worker of item i saves its output.
WorkerTarget(i) ==
    OutputName(None, [label |-> MediaLabel, path |-> poolGallery[i]])

PoolIdle ==
    /\ poolGallery = <<>>
    /\ poolForce = FALSE
    /\ poolWorkers = <<>>
    /\ poolDirectory = [name \in GalleryOutputNames |-> None]

ReadEntryIdle ==
    /\ entryStep = "start"
    /\ serializedLocalMedia = None
    /\ tasks = <<>>
    /\ finishOrder = <<>>
    /\ localMedia = None

RunIdle ==
    /\ disk = [sections |-> <<>>, resume |-> None, header_background |-> TRUE,
               fault |-> None]
    /\ staticContent = EmptyDirectory
    /\ lastRun = None

Init ==
    /\ DiscoveryInit(<<PortfolioYaml>>)
    /\ EntryIdle
    /\ MediaIdle
    /\ SchemaIdle
    /\ MediumsIdle
    /\ RunIdle
    /\ PoolIdle
    /\ ReadEntryIdle
    /\ SchemaIdle

AddSectionDirectory(yamls, description) ==
    /\ phase = "authoring"
    /\ Len(content.sections) < Cardinality(SectionNames)
    /\ content' = [content EXCEPT !.sections =
            Append(@, [dir |-> <<Len(@) + 1>>, yamls |-> yamls,
                       description |-> description, entries |-> <<>>])]
    /\ UNCHANGED <<phase, sectionsRead, portfolio, raised, app, entryVars, mediaVars, schemaVars, mediumsVars, runVars, poolVars, readEntryVars>>

AddEntryDirectory(yamls, entry) ==
    /\ phase = "authoring"
    /\ content.sections # <<>>
    /\ NumEntries(content) < MaxEntries
    /\ LET s == Len(content.sections)
       IN  content' = [content EXCEPT !.sections[s].entries =
                Append(@, [dir |-> <<s, Len(@) + 1>>, yamls |-> yamls, entry |-> entry])]
    /\ UNCHANGED <<phase, sectionsRead, portfolio, raised, app, entryVars, mediaVars, schemaVars, mediumsVars, runVars, poolVars, readEntryVars>>

AuthorSection ==
    \E description \in SectionDescriptions :
        AddSectionDirectory(<<SectionYaml>>, description)

AuthorEntry ==
    \E stem \in Stems, completion_date \in CompletionDates, visible \in BOOLEAN :
        AddEntryDirectory(<<EntryYaml(stem)>>,
                          [completion_date |-> completion_date, visible |-> visible])

CreateApp ==
    /\ phase = "authoring"
    /\ LET current == DiscoverPortfolio(content)
       IN  /\ sectionsRead' = current.sections_read
           /\ IF current.tag = "ok"
              THEN /\ portfolio' = Some(current.portfolio)
                   /\ raised' = None
                   /\ app' = Some(SlugLookup(current.portfolio))
                   /\ phase' = "served"
              ELSE /\ portfolio' = None
                   /\ raised' = Some(current.exception)
                   /\ app' = None
                   /\ phase' = "failed"
    /\ UNCHANGED <<content, entryVars, mediaVars, schemaVars, mediumsVars, runVars, poolVars, readEntryVars>>

Next == AuthorSection \/ AuthorEntry \/ CreateApp

Spec == Init /\ [][Next]_vars

(***************************************************************************)
(* The directory structure: the same run over content whose directories    *)
(* hold no, one or two files matching *.yaml (the descriptors themselves   *)
(* are all alike).                                                         *)
(***************************************************************************)
YamlListings(yaml) == {<<>>, <<yaml>>, <<yaml, OtherYaml>>}

StructureInit ==
    /\ \E root_yamls \in YamlListings(PortfolioYaml) : DiscoveryInit(root_yamls)
    /\ EntryIdle
    /\ MediaIdle
    /\ SchemaIdle
    /\ MediumsIdle
    /\ RunIdle
    /\ PoolIdle
    /\ ReadEntryIdle

MakeSectionDirectory ==
    \E yamls \in YamlListings(SectionYaml) :
        AddSectionDirectory(yamls, DefaultSectionDescription)

MakeEntryDirectory ==
    \E yamls \in YamlListings(EntryYaml("a")) :
        AddEntryDirectory(yamls, DefaultEntry)

StructureNext == MakeSectionDirectory \/ MakeEntryDirectory \/ CreateApp

SpecStructure == StructureInit /\ [][StructureNext]_vars

(***************************************************************************)
(* One entry directory with its names spelled out: _read_section_from_disk *)
(* hands _find_yaml(path) of the directory to _read_entry_from_disk.       *)
(***************************************************************************)
NameComponents == {"a", "b", "entry"}

RECURSIVE NamesOfLen(_)
NamesOfLen(n) ==
    IF n = 0 THEN {<<>>}
    ELSE {Append(name, c) : name \in NamesOfLen(n - 1), c \in NameComponents}

\* Directory names: "a", "entry", "a.b", ...
DirectoryNames == UNION {NamesOfLen(n) : n \in 1..(MaxNameLen - 1)}

\* Names glob("*.yaml") matches: "a.yaml", "a.b.yaml", ... and ".yaml".
YamlFileNames ==
    {Append(name, YAML_EXTENSION) : name \in DirectoryNames}
        \cup {<<"", YAML_EXTENSION>>}

EntryInit ==
    /\ DiscoveryIdle
    /\ \E name \in DirectoryNames, yaml \in YamlFileNames :
          entryDirectory = [name |-> name, yamls |-> <<yaml>>]
    /\ entryRead = None
    /\ MediaIdle
    /\ SchemaIdle
    /\ MediumsIdle
    /\ RunIdle
    /\ PoolIdle
    /\ ReadEntryIdle

ReadEntryDirectory ==
    /\ entryRead = None
    /\ LET found == FindYaml([dir |-> entryDirectory.name,
                              yamls |-> entryDirectory.yamls])
       IN  entryRead' = IF found.tag = "ok"
                        THEN Some(ReadEntryFromDisk(found.path, DefaultEntry, "red"))
                        ELSE None
    /\ UNCHANGED <<entryDirectory, discoveryVars, mediaVars, schemaVars, mediumsVars, runVars, poolVars, readEntryVars>>

EntryNext == ReadEntryDirectory

SpecEntry == EntryInit /\ [][EntryNext]_vars

(***************************************************************************)
(* The media transform on its own: calls of render_local_media on one      *)
(* media directory, as the call sites make them (new_file_name None with   *)
(* the large or the small size, the icon name with the icon size), and the *)
(* author adding, replacing and removing source files between calls.       *)
(***************************************************************************)
CallShapes == {[new_file_name |-> None, size |-> "large"],
               [new_file_name |-> None, size |-> "small"],
               [new_file_name |-> Some(IconFileName), size |-> "icon"]}

MediaInit ==
    /\ DiscoveryIdle
    /\ EntryIdle
    /\ MediaIdle
    /\ SchemaIdle
    /\ MediumsIdle
    /\ RunIdle
    /\ PoolIdle
    /\ ReadEntryIdle

CallRenderLocalMedia ==
    /\ numCalls < MaxCalls
    /\ \E shape \in CallShapes, write_images \in BOOLEAN, path \in MediaPaths :
          LET args == [new_file_name |-> shape.new_file_name,
                       size |-> shape.size,
                       images_config |-> AppImagesConfig(write_images),
                       local_media |-> [label |-> MediaLabel, path |-> path]]
              image_config == UnpackImageSizes(args.images_config)[args.size]
              call == RenderLocalMedia(mediaDirectory, sourceFiles, args.new_file_name,
                                       image_config, args.local_media)
          IN  /\ mediaDirectory' = call.directory
              /\ lastCall' = Some([args |-> args, ret |-> call.ret,
                                   read |-> call.read, wrote |-> call.wrote,
                                   before |-> mediaDirectory, after |-> call.directory])
              /\ prevCall' = lastCall
    /\ numCalls' = numCalls + 1
    /\ UNCHANGED <<sourceFiles, discoveryVars, entryVars, schemaVars, mediumsVars, runVars, poolVars, readEntryVars>>

EditSourceFile ==
    /\ \E path \in MediaPaths, image \in {None} \cup {Some(i) : i \in Images} :
          /\ sourceFiles[path] # image
          /\ sourceFiles' = [sourceFiles EXCEPT ![path] = image]
    /\ lastCall' = None
    /\ prevCall' = None
    /\ UNCHANGED <<mediaDirectory, numCalls, discoveryVars, entryVars, schemaVars, mediumsVars, runVars, poolVars, readEntryVars>>

MediaNext == CallRenderLocalMedia \/ EditSourceFile

SpecMedia == MediaInit /\ [][MediaNext]_vars

(***************************************************************************)
(* Validation on its own: a descriptor of one of the three kinds, edited   *)
(* field by field away from the well-formed one, then read.                *)
(***************************************************************************)
SchemaInit ==
    /\ DiscoveryIdle
    /\ EntryIdle
    /\ MediaIdle
    /\ MediumsIdle
    /\ RunIdle
    /\ PoolIdle
    /\ ReadEntryIdle
    /\ \E element_type \in ElementTypes : descriptor = WellFormed(element_type)
    /\ numEdits = 0
    /\ reader = "content_api"
    /\ readResult = None
    /\ printed = {}

EditDescriptor ==
    /\ readResult = None
    /\ numEdits < MaxEdits
    /\ descriptor.top_level = "mapping"
    /\ \E f \in DOMAIN descriptor.fields, value \in FieldValues :
          /\ descriptor.fields[f] # value
          /\ descriptor' = [descriptor EXCEPT !.fields[f] = value]
    /\ numEdits' = numEdits + 1
    /\ UNCHANGED <<reader, readResult, printed, discoveryVars, entryVars, mediaVars, mediumsVars, runVars, poolVars, readEntryVars>>

\* The author breaks a field that is no designated text.
BreakField ==
    /\ readResult = None
    /\ numEdits < MaxEdits
    /\ descriptor.top_level = "mapping"
    /\ \E defect \in Defects \ {descriptor.defect} :
          descriptor' = [descriptor EXCEPT !.defect = defect]
    /\ numEdits' = numEdits + 1
    /\ UNCHANGED <<reader, readResult, printed, discoveryVars, entryVars, mediaVars, mediumsVars, runVars, poolVars, readEntryVars>>

\* The author adds a top-level key the schema does not define.
AddExtraKey ==
    /\ readResult = None
    /\ numEdits < MaxEdits
    /\ descriptor.top_level = "mapping"
    /\ ~descriptor.extra_key
    /\ descriptor' = [descriptor EXCEPT !.extra_key = TRUE]
    /\ numEdits' = numEdits + 1
    /\ UNCHANGED <<reader, readResult, printed, discoveryVars, entryVars, mediaVars, mediumsVars, runVars, poolVars, readEntryVars>>

\* The author replaces the whole content: nothing, or a sequence.
ReplaceContent ==
    /\ readResult = None
    /\ numEdits < MaxEdits
    /\ descriptor.top_level = "mapping"
    /\ \E top_level \in TopLevels \ {"mapping"} :
          descriptor' = [descriptor EXCEPT
                            !.top_level = top_level,
                            !.defect = "none",
                            !.extra_key = FALSE,
                            !.fields = [f \in DOMAIN descriptor.fields |-> LeftOut]]
    /\ numEdits' = numEdits + 1
    /\ UNCHANGED <<reader, readResult, printed, discoveryVars, entryVars, mediaVars, mediumsVars, runVars, poolVars, readEntryVars>>

ReadDescriptor ==
    /\ readResult = None
    /\ \E package \in Packages :
          /\ reader' = package
          /\ readResult' = Some(ReadPortfolioElement(package, descriptor))
          /\ printed' = PrintedByRead(descriptor)
    /\ UNCHANGED <<descriptor, numEdits, discoveryVars, entryVars, mediaVars, mediumsVars, runVars, poolVars, readEntryVars>>

SchemaNext ==
    \/ EditDescriptor
    \/ BreakField
    \/ AddExtraKey
    \/ ReplaceContent
    \/ ReadDescriptor

SpecSchema == SchemaInit /\ [][SchemaNext]_vars

(***************************************************************************)
(* _render_mediums on its own: a mediums list is written tag by tag, then  *)
(* rendered.                                                               *)
(***************************************************************************)
MediumsInit ==
    /\ DiscoveryIdle
    /\ EntryIdle
    /\ MediaIdle
    /\ SchemaIdle
    /\ MediumsIdle
    /\ RunIdle
    /\ PoolIdle
    /\ ReadEntryIdle

AppendMedium ==
    /\ renderedMediums = None
    /\ Len(mediums) < MaxMediums
    /\ \E medium \in Medium : mediums' = Append(mediums, medium)
    /\ UNCHANGED <<mediumsRenderer, renderedMediums>>
    /\ UNCHANGED <<discoveryVars, entryVars, mediaVars, schemaVars, runVars, poolVars, readEntryVars>>

CallRenderMediums ==
    /\ renderedMediums = None
    /\ \E package \in Packages :
          /\ mediumsRenderer' = package
          /\ renderedMediums' = Some(RenderMediums(package, mediums))
    /\ UNCHANGED <<mediums, discoveryVars, entryVars, mediaVars, schemaVars, runVars, poolVars, readEntryVars>>

MediumsNext == AppendMedium \/ CallRenderMediums

SpecMediums == MediumsInit /\ [][MediumsNext]_vars

(***************************************************************************)
(* Whole runs: a complete portfolio, which the author may damage in one    *)
(* place (or leave without header_background), and discover_portfolio run  *)
(* on it any number of times, with force_rewrite or without, on the static *)
(* content directory the runs before have left.                            *)
(***************************************************************************)
\* The entry directories: descriptor a.yaml or b.yaml, the first with a
\* gallery or without.
RunEntryDirectories ==
    {entry \in [stem : Stems, gallery : BOOLEAN] : entry.gallery => entry.stem = "a"}

RunSectionsOfLen(n) == [1..n -> UNION {[1..m -> RunEntryDirectories] : m \in 0..MaxRunEntries}]

DefaultResumePath == <<"cv", "pdf">>

\* The complete portfolios: every optional part is there.
RunDisks ==
    {[sections |-> sections, resume |-> Some(DefaultResumePath),
      header_background |-> TRUE, fault |-> None] :
        sections \in {ss \in UNION {RunSectionsOfLen(n) : n \in 0..Len(RunSectionNames)} :
                         Len(Chain(ss)) <= MaxRunEntries}}

Complete(d) ==
    /\ d.fault = None
    /\ d.header_background
    /\ d.resume = Some(DefaultResumePath)

RunDirectories(d) ==
    {<<>>} \cup {<<i>> : i \in DOMAIN d.sections}
    \cup UNION {{<<i, j>> : j \in DOMAIN d.sections[i]} : i \in DOMAIN d.sections}

\* The media fields of the descriptor of dir.
MediaFields(d, dir) ==
    CASE Len(dir) = 0 -> PortfolioMediaFields
      [] Len(dir) = 1 -> {"logo"}
      [] Len(dir) = 2 ->
            {"featured_media"} \cup
            (IF d.sections[dir[1]][dir[2]].gallery
             THEN {GalleryFields[k] : k \in DOMAIN GalleryFields} ELSE {})

Faults(d) ==
    {[kind |-> kind, dir |-> dir, field |-> ""] :
        kind \in {"no_yaml", "two_yamls", "bad_descriptor"},
        dir \in RunDirectories(d)}
    \cup UNION {{[kind |-> "missing_source", dir |-> dir, field |-> field] :
                    field \in MediaFields(d, dir)} : dir \in RunDirectories(d)}
    \cup (IF d.resume = None THEN {}
          ELSE {[kind |-> "missing_resume", dir |-> <<>>, field |-> "resume_path"]})

RunInit ==
    /\ DiscoveryIdle
    /\ EntryIdle
    /\ MediaIdle
    /\ SchemaIdle
    /\ MediumsIdle
    /\ PoolIdle
    /\ ReadEntryIdle
    /\ disk \in RunDisks
    /\ staticContent = EmptyDirectory
    /\ lastRun = None

\* The author removes, adds or breaks one file.
DamageDisk ==
    /\ Complete(disk)
    /\ \E fault \in Faults(disk) : disk' = [disk EXCEPT !.fault = Some(fault)]
    /\ lastRun' = None
    /\ UNCHANGED <<staticContent, discoveryVars, entryVars, mediaVars, schemaVars, mediumsVars, poolVars, readEntryVars>>

\* The author takes header_background or resume_path, which are Optional,
\* out of the portfolio descriptor, or names another resume file.
EditPortfolioDescriptor ==
    /\ Complete(disk)
    /\ \/ disk' = [disk EXCEPT !.header_background = FALSE]
       \/ disk' = [disk EXCEPT !.resume = None]
       \/ \E resume_path \in ResumePaths \ {DefaultResumePath} :
             disk' = [disk EXCEPT !.resume = Some(resume_path)]
    /\ lastRun' = None
    /\ UNCHANGED <<staticContent, discoveryVars, entryVars, mediaVars, schemaVars, mediumsVars, poolVars, readEntryVars>>

RunDiscoverPortfolio ==
    /\ \E write_images \in BOOLEAN :
          \E run \in {DiscoveryRun(disk, staticContent, write_images)} :
              /\ staticContent' = run.media
              /\ lastRun' = Some([package |-> "content_api",
                                  force_rewrite |-> write_images,
                                  before |-> staticContent,
                                  trace |-> run.trace,
                                  raised |-> run.raised,
                                  portfolio |-> run.portfolio])
    /\ UNCHANGED <<disk, discoveryVars, entryVars, mediaVars, schemaVars, mediumsVars, poolVars, readEntryVars>>

RunNext == DamageDisk \/ EditPortfolioDescriptor \/ RunDiscoverPortfolio

SpecRun == RunInit /\ [][RunNext]_vars

(***************************************************************************)
(* The same, with discover_portfolio of the content package.               *)
(***************************************************************************)
RunDiscoverPortfolioContent ==
    /\ \E write_images \in BOOLEAN :
          \E run \in {DiscoveryRunContent(disk, staticContent, write_images)} :
              /\ staticContent' = run.media
              /\ lastRun' = Some([package |-> "content",
                                  force_rewrite |-> write_images,
                                  before |-> staticContent,
                                  trace |-> run.trace,
                                  raised |-> run.raised,
                                  portfolio |-> run.portfolio])
    /\ UNCHANGED <<disk, discoveryVars, entryVars, mediaVars, schemaVars, mediumsVars, poolVars, readEntryVars>>

RunContentNext == DamageDisk \/ EditPortfolioDescriptor \/ RunDiscoverPortfolioContent

SpecRunContent == RunInit /\ [][RunContentNext]_vars

(***************************************************************************)
(* The gallery pool on its own: a gallery list is written item by item,    *)
(* map starts a worker per item, and the workers run in any interleaving.  *)
(***************************************************************************)
PoolInit ==
    /\ DiscoveryIdle
    /\ EntryIdle
    /\ MediaIdle
    /\ SchemaIdle
    /\ MediumsIdle
    /\ RunIdle
    /\ PoolIdle
    /\ ReadEntryIdle

OtherVars == <<discoveryVars, entryVars, mediaVars, schemaVars, mediumsVars, runVars, readEntryVars>>

AppendGalleryItem ==
    /\ poolWorkers = <<>>
    /\ Len(poolGallery) < MaxGallery
    /\ \E path \in GalleryPaths : poolGallery' = Append(poolGallery, path)
    /\ UNCHANGED <<poolForce, poolWorkers, poolDirectory, OtherVars>>

PoolMap ==
    /\ poolWorkers = <<>>
    /\ poolGallery # <<>>
    /\ poolForce' \in BOOLEAN
    /\ poolWorkers' = [i \in DOMAIN poolGallery |-> "waiting"]
    /\ UNCHANGED <<poolGallery, poolDirectory, OtherVars>>

\* images.py:67
WorkerTestsOutput(i) ==
    /\ poolWorkers[i] = "waiting"
    /\ poolWorkers' = [poolWorkers EXCEPT ![i] =
            IF poolDirectory[WorkerTarget(i)] = None \/ poolForce
            THEN "saving" ELSE "done"]
    /\ UNCHANGED <<poolGallery, poolForce, poolDirectory, OtherVars>>

\* images.py:69-96
WorkerSavesOutput(i) ==
    /\ poolWorkers[i] = "saving"
    /\ poolDirectory' = [poolDirectory EXCEPT ![WorkerTarget(i)] =
            Some(SavedImage([pixels |-> poolGallery[i], animated |-> FALSE],
                            UnpackImageSizes(AppImagesConfig(poolForce)).large))]
    /\ poolWorkers' = [poolWorkers EXCEPT ![i] = "done"]
    /\ UNCHANGED <<poolGallery, poolForce, OtherVars>>

PoolNext ==
    \/ AppendGalleryItem
    \/ PoolMap
    \/ \E i \in DOMAIN poolWorkers : WorkerTestsOutput(i)
    \/ \E i \in DOMAIN poolWorkers : WorkerSavesOutput(i)

SpecPool == PoolInit /\ [][PoolNext]_vars

(***************************************************************************)
(* _read_entry_from_disk, step by step (lines 249-306): the descriptor is  *)
(* read; if it holds a local_media list, a Pool of 5 processes maps        *)
(* render_local_media over it and the call of map returns when every item  *)
(* is done; then the featured media is rendered, then the favicon, and the *)
(* entry is returned, after which _read_section_from_disk reads the next   *)
(* entry. The tasks of a map are handed out in the order of the list, each *)
(* to a process that has none; they finish in any order.                   *)
(***************************************************************************)
\* Pool(processes=5)
PoolProcesses == 5

ItemNames == <<"1", "2", "3", "4", "5", "6", "7", "8">>

\* The i-th item of a local_media list: a LocalMedia with a file of its own.
GalleryItem(i) ==
    [label |-> MediaLabel, path |-> [dirs |-> <<>>, name |-> <<ItemNames[i], "png">>]]

\* The local_media lists of the entry descriptors: none, or up to MaxItems
\* items, in one order or the other.
LocalMediaLists ==
    {None}
    \cup {Some([i \in 1..n |-> GalleryItem(i)]) : n \in 0..MaxItems}
    \cup {Some([i \in 1..n |-> GalleryItem(n + 1 - i)]) : n \in 2..MaxItems}

\* images.py:98, what render_local_media returns for an item.
RenderedLocalMedia(local_media) ==
    [label |-> RenderMarkdown(local_media.label),
     path |-> OutputName(None, local_media)]

Running == {i \in DOMAIN tasks : tasks[i] = "running"}

ReadEntryInit ==
    /\ DiscoveryIdle
    /\ EntryIdle
    /\ MediaIdle
    /\ SchemaIdle
    /\ MediumsIdle
    /\ RunIdle
    /\ PoolIdle
    /\ ReadEntryIdle

NotReadEntryVars == <<discoveryVars, entryVars, mediaVars, schemaVars, mediumsVars, runVars, poolVars>>

\* Line 249: the descriptor of the next entry directory is read.
ReadSerializedEntry ==
    /\ entryStep \in {"start", "returned"}
    /\ serializedLocalMedia' \in LocalMediaLists
    /\ entryStep' = "read"
    /\ tasks' = <<>>
    /\ finishOrder' = <<>>
    /\ localMedia' = None
    /\ UNCHANGED NotReadEntryVars

\* Lines 255-257: the pool is made and map is called on the list.
CallPoolMap ==
    /\ entryStep = "read"
    /\ serializedLocalMedia # None
    /\ entryStep' = "map"
    /\ tasks' = [i \in DOMAIN serializedLocalMedia[1] |-> "queued"]
    /\ UNCHANGED <<serializedLocalMedia, finishOrder, localMedia, NotReadEntryVars>>

\* Lines 263-264: no list, no pool.
SkipPool ==
    /\ entryStep = "read"
    /\ serializedLocalMedia = None
    /\ entryStep' = "mapped"
    /\ localMedia' = None
    /\ UNCHANGED <<serializedLocalMedia, tasks, finishOrder, NotReadEntryVars>>

\* Mutant: a pool that starts a process for every task.
TaskStartsUncapped(i) ==
    /\ tasks[i] = "queued"
    /\ \A j \in 1..(i - 1) : tasks[j] # "queued"
    /\ tasks' = [tasks EXCEPT ![i] = "running"]
    /\ UNCHANGED <<entryStep, serializedLocalMedia, finishOrder, localMedia, NotReadEntryVars>>

\* A process of the pool that has no task takes the next one of the list.
TaskStarts(i) ==
    /\ tasks[i] = "queued"
    /\ \A j \in 1..(i - 1) : tasks[j] # "queued"
    /\ Cardinality(Running) < PoolProcesses
    /\ tasks' = [tasks EXCEPT ![i] = "running"]
    /\ UNCHANGED <<entryStep, serializedLocalMedia, finishOrder, localMedia, NotReadEntryVars>>

\* render_local_media of item i returns in its process.
TaskFinishes(i) ==
    /\ tasks[i] = "running"
    /\ tasks' = [tasks EXCEPT ![i] = "finished"]
    /\ finishOrder' = Append(finishOrder, i)
    /\ UNCHANGED <<entryStep, serializedLocalMedia, localMedia, NotReadEntryVars>>

\* Mutant: the results are taken as they come (imap_unordered).
PoolMapReturnsInFinishOrder ==
    /\ entryStep = "map"
    /\ \A i \in DOMAIN tasks : tasks[i] = "finished"
    /\ localMedia' = Some([k \in DOMAIN finishOrder |->
                              RenderedLocalMedia(serializedLocalMedia[1][finishOrder[k]])])
    /\ entryStep' = "mapped"
    /\ UNCHANGED <<serializedLocalMedia, tasks, finishOrder, NotReadEntryVars>>

\* Lines 256-262: map returns, once every task has finished, the results in
\* the order of the list; the tuple of them is local_media.
PoolMapReturns ==
    /\ entryStep = "map"
    /\ \A i \in DOMAIN tasks : tasks[i] = "finished"
    /\ localMedia' = Some([i \in DOMAIN tasks |->
                              RenderedLocalMedia(serializedLocalMedia[1][i])])
    /\ entryStep' = "mapped"
    /\ UNCHANGED <<serializedLocalMedia, tasks, finishOrder, NotReadEntryVars>>

\* Line 283: featured_media=media_processor(serialized_entry.featured_media)
RenderFeaturedMedia ==
    /\ entryStep = "mapped"
    /\ entryStep' = "featured"
    /\ UNCHANGED <<serializedLocalMedia, tasks, finishOrder, localMedia, NotReadEntryVars>>

\* Lines 297-306: the favicon is rendered and the entry returned.
RenderFavicon ==
    /\ entryStep = "featured"
    /\ entryStep' = "returned"
    /\ UNCHANGED <<serializedLocalMedia, tasks, finishOrder, localMedia, NotReadEntryVars>>

ReadEntryNext ==
    \/ ReadSerializedEntry
    \/ CallPoolMap
    \/ SkipPool
    \/ \E i \in DOMAIN tasks : TaskStarts(i)
    \/ \E i \in DOMAIN tasks : TaskFinishes(i)
    \/ PoolMapReturns
    \/ RenderFeaturedMedia
    \/ RenderFavicon

SpecReadEntry == ReadEntryInit /\ [][ReadEntryNext]_vars

(***************************************************************************)
(* What the claims speak of.                                               *)
(***************************************************************************)
Served == phase = "served"

ThePortfolio == portfolio[1]

\* The entries list _read_section_from_disk returned for a section directory.
ReadEntries(dir) == sectionsRead[dir[1]].entries

\* E: every entry read, visible or not, section by section in the order of
\* the returned portfolio, each section's entries in their date-sorted order.
FlattenedEntries ==
    Chain([s \in DOMAIN ThePortfolio.sections |->
              ReadEntries(ThePortfolio.sections[s].dir)])

\* The rendered entries of the returned portfolio, section by section.
RenderedEntries ==
    Chain([s \in DOMAIN ThePortfolio.sections |-> ThePortfolio.sections[s].entries])

RenderedFrom(src) ==
    {k \in DOMAIN RenderedEntries : RenderedEntries[k].src = src}

IndexIn(seq, src) == CHOOSE i \in DOMAIN seq : seq[i].src = src

\* C1: the rendered entry built from E[i] has no previous entry when i is
\* the first index and otherwise one with the slug of E[i-1], has no next
\* entry when i is the last index and otherwise one with the slug of E[i+1].
C1_NeighborsByPosition ==
    Served =>
        LET E == FlattenedEntries
        IN  \A i \in DOMAIN E : \A k \in RenderedFrom(E[i].src) :
                LET r == RenderedEntries[k].r
                IN  /\ IF i = 1 THEN r.previous_entry = None
                       ELSE /\ r.previous_entry # None
                            /\ r.previous_entry[1].slug = E[i - 1].e.slug
                    /\ IF i = Len(E) THEN r.next_entry = None
                       ELSE /\ r.next_entry # None
                            /\ r.next_entry[1].slug = E[i + 1].e.slug

\* C2: a section of the returned portfolio lists exactly the visible entries
\* of its own directory, each once, in the order of the section's date-sorted
\* list, and no entry that is not visible.
C2_VisibilityFilter ==
    Served =>
        \A s \in DOMAIN ThePortfolio.sections :
            LET section == ThePortfolio.sections[s]
                on_disk == content.sections[section.dir[1]].entries
                read == ReadEntries(section.dir)
                listed == section.entries
            IN  /\ \A k \in DOMAIN listed : listed[k].r.visible
                /\ {listed[k].src : k \in DOMAIN listed}
                      = {on_disk[j].dir : j \in {j \in DOMAIN on_disk :
                                                   on_disk[j].entry.visible}}
                /\ \A k1, k2 \in DOMAIN listed :
                      k1 < k2 => /\ listed[k1].src # listed[k2].src
                                 /\ IndexIn(read, listed[k1].src)
                                      < IndexIn(read, listed[k2].src)

\* C2 witness: a visible entry is listed whose neighbor is an entry that is
\* not visible, in a section that also holds a second listed entry.
C2_Witness ==
    /\ Served
    /\ \E s \in DOMAIN ThePortfolio.sections :
          LET listed == ThePortfolio.sections[s].entries
          IN  /\ Len(listed) >= 2
              /\ Len(ReadEntries(ThePortfolio.sections[s].dir)) > Len(listed)
              /\ \E k \in DOMAIN listed :
                    /\ listed[k].r.next_entry # None
                    /\ ~listed[k].r.next_entry[1].visible

\* C3: every entries list _read_section_from_disk returns holds the entries
\* of the directory by descending completion date, those of equal date in
\* the order their directories were iterated.
C3_EntriesByDateDescending ==
    \A s \in DOMAIN sectionsRead :
        LET read == sectionsRead[s].entries
            on_disk == content.sections[s].entries
        IN  /\ Len(read) = Len(on_disk)
            /\ {read[i].src : i \in DOMAIN read} = {on_disk[j].dir : j \in DOMAIN on_disk}
            /\ \A i \in DOMAIN read :
                  read[i].e.completion_date
                      = on_disk[read[i].src[2]].entry.completion_date
            /\ \A i \in DOMAIN read : i < Len(read) =>
                  /\ read[i].e.completion_date >= read[i + 1].e.completion_date
                  /\ read[i].e.completion_date = read[i + 1].e.completion_date
                        => read[i].src[2] < read[i + 1].src[2]

\* C3 witness: a section was read whose directories were iterated out of
\* date order and which holds two entries of one date.
C3_Witness ==
    \E s \in DOMAIN sectionsRead :
        LET read == sectionsRead[s].entries
        IN  /\ Len(read) >= 3
            /\ read[1].src[2] # 1
            /\ \E i \in DOMAIN read : /\ i < Len(read)
                                       /\ read[i].e.completion_date
                                            = read[i + 1].e.completion_date

\* C4: the returned portfolio lists every section read, by ascending rank,
\* those of equal rank in the order their directories were iterated.
C4_SectionsByRankAscending ==
    Served =>
        LET sections == ThePortfolio.sections
        IN  /\ Len(sections) = Len(content.sections)
            /\ {sections[s].dir : s \in DOMAIN sections}
                  = {content.sections[d].dir : d \in DOMAIN content.sections}
            /\ \A s \in DOMAIN sections :
                  sections[s].rank = content.sections[sections[s].dir[1]].description.rank
            /\ \A s \in DOMAIN sections : s < Len(sections) =>
                  /\ sections[s].rank <= sections[s + 1].rank
                  /\ sections[s].rank = sections[s + 1].rank
                        => sections[s].dir[1] < sections[s + 1].dir[1]

\* C4 witness: the directory iterated second is listed first.
C4_Witness ==
    /\ Served
    /\ Len(ThePortfolio.sections) = 2
    /\ ThePortfolio.sections[1].dir = <<2>>
    /\ ThePortfolio.sections[1].rank < ThePortfolio.sections[2].rank

\* C5 as claimed: the slug of the entry read is the name of its directory,
\* whatever the descriptor file is called.
C5_SlugIsDirectoryName ==
    entryRead # None => entryRead[1].slug = entryDirectory.name

\* C5 as amended: the slug is the name of the descriptor file without its
\* final ".yaml" (a file named ".yaml" has no suffix to lose and keeps its
\* name), whatever the directory is called.
C5_SlugIsYamlFileStem ==
    entryRead # None =>
        LET file == entryDirectory.yamls[1]
        IN  IF file = <<"", YAML_EXTENSION>>
            THEN entryRead[1].slug = file
            ELSE entryRead[1].slug \o <<YAML_EXTENSION>> = file

\* C5 witness: an entry was read whose descriptor is not named after its
\* directory.
C5_Witness ==
    /\ entryRead # None
    /\ entryDirectory.name = <<"entry">>
    /\ entryDirectory.yamls = <<<<"a", "b", YAML_EXTENSION>>>>
    /\ entryRead[1].slug = <<"a", "b">>

\* C6: no two entries of the returned portfolio have the same slug, and the
\* slug lookup of create_app has one key for each listed entry.
C6_SlugsUnique ==
    Served =>
        /\ \A k1, k2 \in DOMAIN RenderedEntries :
              k1 # k2 => RenderedEntries[k1].r.slug # RenderedEntries[k2].r.slug
        /\ Cardinality(DOMAIN app[1]) = Len(RenderedEntries)

\* Every directory discover_portfolio looks into: the root, the section
\* directories and the entry directories.
AllDirectories ==
    {[dir |-> content.dir, yamls |-> content.yamls]}
        \cup {[dir |-> content.sections[s].dir, yamls |-> content.sections[s].yamls] :
                s \in DOMAIN content.sections}
        \cup UNION {{[dir |-> content.sections[s].entries[j].dir,
                      yamls |-> content.sections[s].entries[j].yamls] :
                        j \in DOMAIN content.sections[s].entries} :
                    s \in DOMAIN content.sections}

\* C9: the run returns a portfolio exactly when the root, every section
\* directory and every entry directory holds exactly one *.yaml file, and
\* then every entry was read from that one file; otherwise it raises the
\* ValueError of _find_yaml for a directory that holds none (not found) or
\* more than one (too many).
C9_ExactlyOneYamlPerDirectory ==
    phase # "authoring" =>
        LET wrong == {d \in AllDirectories : Len(d.yamls) # 1}
        IN  /\ Served <=> wrong = {}
            /\ Served =>
                  \A k \in DOMAIN RenderedEntries :
                      LET src == RenderedEntries[k].src
                          yamls == content.sections[src[1]].entries[src[2]].yamls
                      IN  RenderedEntries[k].r.slug \o <<YAML_EXTENSION>> = yamls[1]
            /\ phase = "failed" =>
                  /\ raised # None /\ portfolio = None /\ app = None
                  /\ raised[1].tag = "ValueError"
                  /\ \E d \in wrong :
                        /\ raised[1].directory = d.dir
                        /\ raised[1].message =
                              IF d.yamls = <<>>
                              THEN "Couldn't find a yaml in directory"
                              ELSE "Found too many yaml files in dir"

\* C9 witness: a first section was read, and the run then failed on an entry
\* directory of the second section that holds two *.yaml files.
C9_Witness ==
    /\ phase = "failed"
    /\ Len(sectionsRead) = 1
    /\ Len(sectionsRead[1].entries) = 1
    /\ raised[1].directory = <<2, 1>>
    /\ raised[1].message = "Found too many yaml files in dir"

\* C7: of two calls of render_local_media in a row with the same arguments
\* and force_rewrite false, the second leaves the media directory as the
\* first left it, saves nothing, and returns (or raises) what the first did.
C7_SecondCallChangesNothing ==
    (/\ prevCall # None
     /\ lastCall # None
     /\ lastCall[1].args = prevCall[1].args
     /\ ~lastCall[1].args.images_config.force_rewrite)
    => /\ lastCall[1].after = prevCall[1].after
       /\ mediaDirectory = prevCall[1].after
       /\ ~lastCall[1].wrote
       /\ lastCall[1].ret = prevCall[1].ret

\* C7 witness: the first of two such calls saved the output and returned.
C7_Witness ==
    /\ prevCall # None
    /\ lastCall # None
    /\ lastCall[1].args = prevCall[1].args
    /\ ~lastCall[1].args.images_config.force_rewrite
    /\ prevCall[1].wrote
    /\ lastCall[1].ret.tag = "ok"

\* C8: a call opens the source exactly when the output file does not exist
\* or force_rewrite is set; a call that does not open it leaves the media
\* directory as it was, whatever the source holds by then; a call that opens
\* it saves the output made from the source as it is now (and raises,
\* saving nothing, when the source file is missing).
C8_RegeneratesIffMissingOrForced ==
    lastCall # None =>
        LET call == lastCall[1]
            name == IF call.args.new_file_name = None
                    THEN call.args.local_media.path.name
                    ELSE call.args.new_file_name[1]
            source == sourceFiles[call.args.local_media.path]
            fits == CASE call.args.size = "large" -> <<2000, 2000>>
                      [] call.args.size = "small" -> <<500, 500>>
                      [] call.args.size = "icon" -> <<50, 50>>
        IN  /\ call.read <=> (call.before[name] = None
                                \/ call.args.images_config.force_rewrite)
            /\ call.wrote <=> (call.read /\ source # None)
            /\ ~call.wrote => call.after = call.before
            /\ call.wrote =>
                  /\ \A other \in OutputNames \ {name} :
                        call.after[other] = call.before[other]
                  /\ call.after[name] # None
                  /\ call.after[name][1].pixels = source[1].pixels
                  /\ call.after[name][1].fits = fits
            /\ mediaDirectory = call.after

\* C8 witness: the output exists, made from a source that has been replaced
\* since, and a call without force_rewrite returns without opening the
\* source, the stale output still in place.
C8_Witness ==
    /\ lastCall # None
    /\ LET call == lastCall[1]
           name == call.args.local_media.path.name
           source == sourceFiles[call.args.local_media.path]
       IN  /\ call.args.new_file_name = None
           /\ ~call.args.images_config.force_rewrite
           /\ ~call.read
           /\ call.ret.tag = "ok"
           /\ source # None
           /\ mediaDirectory[name] # None
           /\ mediaDirectory[name][1].pixels # source[1].pixels

\* The designated text fields of the descriptor that hold a text that does
\* not end in a period.
FieldsWithoutPeriod ==
    {f \in DOMAIN descriptor.fields :
        /\ descriptor.fields[f].yaml = "str"
        /\ LET text == descriptor.fields[f].text
           IN  text = <<>> \/ text[Len(text)] # "."}

\* C10: a descriptor of any of the three kinds in which description, or any
\* other designated text field, holds a text that does not end in a period is
\* rejected with the ValueError that names the record kind and the file.
C10_MissingPeriodIsSchemaError ==
    (readResult # None /\ FieldsWithoutPeriod # {}) =>
        /\ readResult[1].tag = "ValueError"
        /\ readResult[1].element_type = descriptor.element_type
        /\ readResult[1].file = descriptor.path

\* The read ended in the schema validation error of read_portfolio_element,
\* which names the record kind and the file.
SchemaValidationError ==
    /\ readResult # None
    /\ readResult[1].tag = "ValueError"
    /\ readResult[1].message = "Couldn't validate to schema"
    /\ readResult[1].element_type = descriptor.element_type
    /\ readResult[1].file = descriptor.path

\* The descriptor does not match the shape its schema expects.
WrongShape ==
    \/ descriptor.top_level # "mapping"
    \/ descriptor.defect # "none"
    \/ \E f \in DOMAIN descriptor.fields :
          \/ descriptor.fields[f].yaml = "int"
          \/ (descriptor.fields[f].yaml = "absent"
                /\ f \in RequiredText(descriptor.element_type))

\* C11: every read of a descriptor of the wrong shape (a required field
\* missing, an unknown enum value, a malformed date or URL, a top level that
\* is no mapping) ends in the schema validation error naming file and kind;
\* none ends in another error, none is accepted.
C11_WrongShapeIsSchemaError ==
    (readResult # None /\ WrongShape) => SchemaValidationError

\* C12: every read of a descriptor that holds a top-level key the schema
\* does not define ends in the schema validation error; none is accepted
\* with the key ignored.
C12_ExtraKeyIsSchemaError ==
    (readResult # None /\ descriptor.extra_key) => SchemaValidationError

\* The rendering the claim describes for one tag: title-cased, then every
\* acronym replacement applied.
TitleCasedWithAcronyms(tag) ==
    LET title == CapitalizeString(tag)
        r1 == Replace(title, <<"3", "d">>, <<"3", "D">>)
        r2 == Replace(r1, <<"C", "a", "d">>, <<"C", "A", "D">>)
        r3 == Replace(r2, <<"L", "e", "d">>, <<"L", "E", "D">>)
    IN  Replace(r3, <<"P", "c", "b">>, <<"P", "C", "B">>)

Printer3d == <<"3", "d", " ", "p", "r", "i", "n", "t", "e", "r">>
PcbElectronics ==
    <<"p", "c", "b", " ", "e", "l", "e", "c", "t", "r", "o", "n", "i", "c", "s">>
Rendered3dPrinterAndPcb ==
    << <<"3", "D", " ", "P", "r", "i", "n", "t", "e", "r">>,
       <<"P", "C", "B", " ", "E", "l", "e", "c", "t", "r", "o", "n", "i", "c", "s">> >>

\* C16: what _render_mediums returns holds, for every tag of the input, its
\* title-cased form with the acronyms replaced, as often as the input holds
\* tags of that form and nothing else, in ascending order; 3d printer and pcb
\* electronics, in either order, give ("3D Printer", "PCB Electronics").
C16_TitleCasedAcronymsSorted ==
    renderedMediums # None =>
        LET result == renderedMediums[1]
            count(seq, x) == Cardinality({i \in DOMAIN seq : seq[i] = x})
            expected == [i \in DOMAIN mediums |-> TitleCasedWithAcronyms(mediums[i])]
        IN  /\ Len(result) = Len(mediums)
            /\ \A i \in DOMAIN expected :
                  count(result, expected[i]) = count(expected, expected[i])
            /\ \A i, j \in DOMAIN result : i < j => ~StrLess(result[j], result[i])
            /\ mediums \in {<<Printer3d, PcbElectronics>>, <<PcbElectronics, Printer3d>>}
                  => result = Rendered3dPrinterAndPcb

\* C16 witness: pcb electronics, then 3d printer, rendered in the other order
\* by content_api.
C16_Witness ==
    /\ mediums = <<PcbElectronics, Printer3d>>
    /\ mediumsRenderer = "content_api"
    /\ renderedMediums = Some(Rendered3dPrinterAndPcb)

\* C17: the mediums tuple _render_mediums returns holds no value twice, also
\* when the mediums list holds a tag more than once.
C17_MediumsHoldNoDuplicate ==
    renderedMediums # None =>
        \A i, j \in DOMAIN renderedMediums[1] :
            i # j => renderedMediums[1][i] # renderedMediums[1][j]

\* The run of discover_portfolio that lastRun holds.
TheRun == lastRun[1]

RunEvents(op) == {k \in DOMAIN TheRun.trace : TheRun.trace[k].op = op}

\* The run met an error: a directory without its one descriptor, a
\* descriptor the schema rejects, a resume that cannot be copied, or a media
\* transform that opened a source file that is not there.
RunMetError ==
    /\ disk.fault # None
    /\ LET fault == disk.fault[1]
       IN  \/ fault.kind \in {"no_yaml", "two_yamls", "bad_descriptor", "missing_resume"}
           \/ /\ fault.kind = "missing_source"
              /\ \E k \in RunEvents("render") :
                    /\ TheRun.trace[k].dir = fault.dir
                    /\ TheRun.trace[k].field = fault.field
                    /\ TheRun.trace[k].opened

\* C13: a run that meets an error at any level (YAML missing or duplicated,
\* a schema violation, a failing media transform in the main process or in a
\* pool worker) raises and returns no Portfolio, whatever else was read.
C13_AnyErrorAbortsTheRun ==
    (lastRun # None /\ RunMetError) =>
        /\ TheRun.raised # None
        /\ TheRun.raised[1].tag \in {"ValueError", "FileNotFoundError"}
        /\ TheRun.portfolio = None

\* C13 witness: the first entry of a section was read, then a pool worker of
\* the second entry failed on a gallery file that is missing, and the run
\* raised.
C13_Witness ==
    /\ lastRun # None
    /\ disk.fault = Some([kind |-> "missing_source", dir |-> <<1, 2>>,
                          field |-> "local_media.2"])
    /\ \E k \in RunEvents("read") : TheRun.trace[k].dir = <<1, 1>>
    /\ \E k \in RunEvents("render") :
          /\ TheRun.trace[k].dir = <<1, 2>>
          /\ TheRun.trace[k].field = "local_media.2"
          /\ TheRun.trace[k].opened
    /\ TheRun.raised # None
    /\ TheRun.portfolio = None

\* C14: a run on a portfolio in which a descriptor names a media file that
\* does not exist raises the error of the missing file, whatever the static
\* content directory held and whatever force_rewrite is.
C14_MissingSourceAborts ==
    (/\ lastRun # None
     /\ disk.fault # None
     /\ disk.fault[1].kind = "missing_source")
    => /\ TheRun.raised # None
       /\ TheRun.raised[1].tag = "FileNotFoundError"

\* C15: no two workers of a pool are at one time past the test and before
\* the end of the save of the same output file: the workers of a gallery
\* list target output names that differ from each other.
C15_WorkersTargetDistinctFiles ==
    \A i, j \in DOMAIN poolWorkers :
        (i # j /\ poolWorkers[i] = "saving" /\ poolWorkers[j] = "saving")
            => WorkerTarget(i) # WorkerTarget(j)

\* The RenderedLocalMedia of the return-button image.
ReturnButtonImage ==
    [label |-> RenderMarkdown(MediaLabel), path |-> <<"return_image", "png">>]

\* C18: in every run that gets past the portfolio descriptor the return
\* image is rendered exactly once, before anything of a section is touched,
\* and in a run that returns every entry's top_image is that one value.
C18_ReturnButtonRenderedOnce ==
    lastRun # None =>
        LET trace == TheRun.trace
            buttons == {k \in RunEvents("render") : trace[k].field = "return_image"}
            inSections == {k \in DOMAIN trace : trace[k].dir # <<>>}
        IN  /\ (inSections # {} \/ TheRun.portfolio # None) =>
                  /\ Cardinality(buttons) = 1
                  /\ \A b \in buttons, k \in inSections : b < k
            /\ TheRun.portfolio # None =>
                  /\ Len(TheRun.portfolio[1].entries) = Len(Chain(disk.sections))
                  /\ \A e \in DOMAIN TheRun.portfolio[1].entries :
                        TheRun.portfolio[1].entries[e].top_image = ReturnButtonImage

\* C19: a run that returns has copied the resume the descriptor names, once,
\* to "resume" plus the extension of that name, and Portfolio.resume_path is
\* that file name; with no resume_path in the descriptor it has copied
\* nothing, has written no resume file, and Portfolio.resume_path is None.
C19_ResumeCopiedOnce ==
    (lastRun # None /\ TheRun.portfolio # None) =>
        IF disk.resume # None
        THEN LET name == <<"resume">> \o Tail(disk.resume[1])
             IN  /\ Cardinality(RunEvents("copy")) = 1
                 /\ \A k \in RunEvents("copy") : TheRun.trace[k].name = Some(name)
                 /\ staticContent[name] # None
                 /\ staticContent[name][1].pixels = [dir |-> <<>>, name |-> disk.resume[1]]
                 /\ TheRun.portfolio[1].resume_path = Some(name)
        ELSE /\ RunEvents("copy") = {}
             /\ \A resume_path \in ResumePaths :
                   staticContent[ResumeName(resume_path)]
                       = TheRun.before[ResumeName(resume_path)]
             /\ TheRun.portfolio[1].resume_path = None

\* C19 witness: a run that returned with cv.pdf copied to resume.pdf.
C19_Witness ==
    /\ lastRun # None
    /\ TheRun.portfolio # None
    /\ disk.resume = Some(<<"cv", "pdf">>)
    /\ TheRun.before[<<"resume", "pdf">>] = None
    /\ staticContent[<<"resume", "pdf">>] # None

\* C20: a run that raises returns no Portfolio and leaves the static content
\* directory as it found it.
C20_AbortLeavesNoOutput ==
    (lastRun # None /\ TheRun.raised # None) =>
        /\ TheRun.portfolio = None
        /\ staticContent = TheRun.before

\* What validation makes of one designated text field with the spell check
\* removed: ends_with_period is the only validator.
ValidatedWithoutSpellCheck(value, required) ==
    IF value.yaml = "absent" THEN (IF required THEN "error" ELSE "skipped")
    ELSE IF value.yaml # "str" THEN "AttributeError"
    ELSE IF ~EndsWithPeriod(value.text) THEN "error"
    ELSE "valid"

\* The fields of the descriptor whose text holds a word the spell checker
\* does not know.
FieldsWithUnknownWord ==
    {f \in DOMAIN descriptor.fields :
        /\ descriptor.fields[f].yaml = "str"
        /\ Misspelled(descriptor.fields[f].text) # {}}

\* C21: the spell check never changes what validation makes of a text: each
\* designated text field is accepted or rejected as it is with the spell
\* check removed, a descriptor whose only flaw is an unknown word is read
\* without error, and the unknown words of an accepted descriptor are
\* printed, each with the text it stands in.
C21_SpellCheckNeverRejects ==
    readResult # None =>
        /\ \A f \in DOMAIN descriptor.fields :
              LET required == f \in RequiredText(descriptor.element_type)
              IN  ValidatedString(descriptor.fields[f], required)
                    = ValidatedWithoutSpellCheck(descriptor.fields[f], required)
        /\ readResult[1].tag = "ok" <=>
              /\ descriptor.top_level = "mapping"
              /\ descriptor.defect = "none"
              /\ ~(descriptor.extra_key /\ ExtraForbidden(reader))
              /\ \A f \in DOMAIN descriptor.fields :
                    ValidatedWithoutSpellCheck(descriptor.fields[f],
                        f \in RequiredText(descriptor.element_type))
                      \in {"valid", "skipped"}
        /\ readResult[1].tag = "ok" =>
              \A f \in FieldsWithUnknownWord :
                  \A word \in Misspelled(descriptor.fields[f].text) :
                      [word |-> word, value |-> descriptor.fields[f].text] \in printed

\* C21 witness: a descriptor with the unknown word b in a text was read
\* without error, and the word was printed.
C21_Witness ==
    /\ readResult # None
    /\ readResult[1].tag = "ok"
    /\ \E f \in DOMAIN descriptor.fields :
          /\ descriptor.fields[f] = Str(<<"A", "-", "b", ".">>)
          /\ [word |-> <<"b">>, value |-> <<"A", "-", "b", ".">>] \in printed
          /\ [word |-> <<"a">>, value |-> <<"A", "-", "b", ".">>] \notin printed

\* The source file the media descriptor of the render call k of the run
\* declares: the file of that name beside the descriptor.
DeclaredSource(k) ==
    [dir |-> TheRun.trace[k].dir,
     name |-> MediaFileName(disk, TheRun.trace[k].dir, TheRun.trace[k].field)]

\* C22: in a run that returns, the path of every RenderedLocalMedia names an
\* output file that is a copy of the source file its own media descriptor
\* declares, and two media descriptors that declare different source files
\* have different output paths.
C22_OutputIsCopyOfOwnSource ==
    (lastRun # None /\ TheRun.portfolio # None) =>
        /\ \A k \in RunEvents("render") :
              LET name == TheRun.trace[k].name[1]
              IN  /\ staticContent[name] # None
                  /\ staticContent[name][1].pixels = DeclaredSource(k)
        /\ \A k, l \in RunEvents("render") :
              DeclaredSource(k) # DeclaredSource(l)
                  => TheRun.trace[k].name # TheRun.trace[l].name

\* C23: in every run the steps of a section come in the order descriptor
\* located, descriptor validated, logo rendered, entry directories read: no
\* entry directory of a section is touched before the logo of that section
\* is rendered, so a section whose logo file is missing fails with none of
\* its entries' media written.
C23_LogoRenderedBeforeEntries ==
    lastRun # None =>
        LET trace == TheRun.trace
            logo(i) == {k \in RunEvents("render") : trace[k].dir = <<i>>}
            entries(i) == {k \in DOMAIN trace :
                              Len(trace[k].dir) = 2 /\ trace[k].dir[1] = i}
        IN  \A i \in DOMAIN disk.sections :
                /\ \A k \in entries(i) : \E l \in logo(i) : l < k
                /\ \A l \in logo(i) :
                      \E f \in RunEvents("find_yaml"), r \in RunEvents("read") :
                          /\ trace[f].dir = <<i>> /\ trace[r].dir = <<i>>
                          /\ f < r /\ r < l

\* C24: at no moment are more than 5 gallery transforms in progress; they
\* are transforms of the list of the entry being read, in progress only
\* while map is being called: when the featured media and the favicon of
\* the entry are rendered and when the next entry is read, every task of
\* the pool has finished.
C24_AtMostFiveTransformsOfOneEntry ==
    /\ Cardinality(Running) <= 5
    /\ Running # {} =>
          /\ entryStep = "map"
          /\ serializedLocalMedia # None
          /\ Running \subseteq DOMAIN serializedLocalMedia[1]
    /\ entryStep \in {"mapped", "featured", "returned"} =>
          \A i \in DOMAIN tasks : tasks[i] = "finished"

\* C24 witness: five transforms in progress and a sixth waiting for a
\* process.
C24_Witness ==
    /\ Cardinality(Running) = 5
    /\ \E i \in DOMAIN tasks : tasks[i] = "queued"

\* C26: the local_media of a rendered entry has as many elements as the
\* list of the descriptor and its i-th element is the rendering of the i-th
\* item; without a list it is None and no task of a pool ever existed.
C26_LocalMediaInListOrder ==
    entryStep \in {"mapped", "featured", "returned"} =>
        IF serializedLocalMedia = None
        THEN localMedia = None /\ tasks = <<>>
        ELSE /\ localMedia # None
             /\ Len(localMedia[1]) = Len(serializedLocalMedia[1])
             /\ \A i \in DOMAIN localMedia[1] :
                   /\ localMedia[1][i].path = serializedLocalMedia[1][i].path.name
                   /\ localMedia[1][i].label
                         = RenderMarkdown(serializedLocalMedia[1][i].label)

\* C26 witness: an entry returned with a local_media of three elements
\* whose tasks finished last item first.
C26_Witness ==
    /\ entryStep = "returned"
    /\ localMedia # None
    /\ Len(localMedia[1]) = 3
    /\ finishOrder = <<3, 2, 1>>

\* C27: a run on a portfolio in which every directory holds its one
\* descriptor, every descriptor passes the schema and every file named
\* exists returns a Portfolio, also when the portfolio descriptor leaves
\* header_background out.
C27_ValidDescriptorAlwaysLoads ==
    (lastRun # None /\ disk.fault = None) =>
        /\ TheRun.raised = None
        /\ TheRun.portfolio # None

\* C28: in the app, the slug of the previous_entry and of the next_entry of
\* every entry of the slug lookup is a key of the lookup.
C28_NeighborSlugsAreServed ==
    Served =>
        \A slug \in DOMAIN app[1] :
            LET entry == app[1][slug].r
            IN  /\ entry.previous_entry # None
                      => entry.previous_entry[1].slug \in DOMAIN app[1]
                /\ entry.next_entry # None
                      => entry.next_entry[1].slug \in DOMAIN app[1]

\* C29: for any two entries a and b of the returned Portfolio, the
\* next_entry of a has the slug of b exactly when the previous_entry of b
\* has the slug of a.
C29_NeighborLinksSymmetric ==
    Served =>
        \A k, l \in DOMAIN RenderedEntries :
            LET a == RenderedEntries[k].r
                b == RenderedEntries[l].r
            IN  k # l =>
                    ((a.next_entry # None /\ a.next_entry[1].slug = b.slug)
                        <=> (b.previous_entry # None /\ b.previous_entry[1].slug = a.slug))

\* C30: every RenderedEntry of the returned Portfolio has, in each field
\* but previous_entry and next_entry, the value the entry it was made from
\* has in the field of that name, and no other field; previous_entry is the
\* first element of the pair given for that entry and next_entry the second.
C30_FillChangesNothingButNeighbors ==
    Served =>
        \A k \in DOMAIN RenderedEntries :
            LET r == RenderedEntries[k].r
                E == FlattenedEntries
                e == E[IndexIn(E, RenderedEntries[k].src)].e
                previous_next == NeighborLookup(E)[e]
            IN  /\ DOMAIN r = DOMAIN e \cup {"previous_entry", "next_entry"}
                /\ \A field \in DOMAIN e : r[field] = e[field]
                /\ r.previous_entry = previous_next[1]
                /\ r.next_entry = previous_next[2]

\* C30 witness: an entry of the returned Portfolio with an entry before it
\* and another one after it.
C30_Witness ==
    /\ Served
    /\ \E k \in DOMAIN RenderedEntries :
          /\ RenderedEntries[k].r.previous_entry # None
          /\ RenderedEntries[k].r.next_entry # None
          /\ RenderedEntries[k].r.previous_entry # RenderedEntries[k].r.next_entry

\* The same content with the entry directories of every section iterated
\* in the opposite order: the directory that is j-th of n here is
\* (n + 1 - j)-th there.
MirroredDir(d, dir) ==
    IF Len(dir) = 2
    THEN <<dir[1], Len(d.sections[dir[1]]) + 1 - dir[2]>>
    ELSE dir

MirroredDisk(d) ==
    [d EXCEPT !.sections = [i \in DOMAIN d.sections |-> Reversed(d.sections[i])],
              !.fault = IF d.fault = None THEN None
                        ELSE Some([d.fault[1] EXCEPT !.dir = MirroredDir(d, @)])]

\* The files of a media directory written from the mirrored content, each
\* named by the directory its source has in the content as it is here.
MirroredMedia(d, media) ==
    [name \in DOMAIN media |->
        IF media[name] = None THEN None
        ELSE Some([media[name][1] EXCEPT !.pixels.dir = MirroredDir(d, @)])]

\* C25: a run on the same content and the same media directory, with the
\* directories iterated in another order, returns when this run returns,
\* with the same entries, and leaves the same output files with the same
\* content. (Ranks and dates, which order the sections and the entries,
\* are taken to differ; the entries of a run are compared as a set.)
C25_SameResultInAnyIterationOrder ==
    lastRun # None =>
        LET other == DiscoveryRun(MirroredDisk(disk),
                                  MirroredMedia(disk, TheRun.before),
                                  TheRun.force_rewrite)
            entries(run_portfolio) ==
                {run_portfolio[1].entries[k] : k \in DOMAIN run_portfolio[1].entries}
        IN  /\ (other.portfolio = None) <=> (TheRun.portfolio = None)
            /\ TheRun.portfolio # None =>
                  entries(TheRun.portfolio)
                    = {[e EXCEPT !.dir = MirroredDir(disk, @)] :
                          e \in entries(other.portfolio)}
            /\ MirroredMedia(disk, other.media) = staticContent

====
